---------------------------- MODULE Spec2Model ----------------------------
(***************************************************************************)
(* WAVR Tune: the pitch-correction engine (PitchCorrector, js/app.js), the *)
(* application controller that drives it (WavrTuneApp, js/app.js) and the  *)
(* AudioWorklet processor (TuneProcessor).                                  *)
(*                                                                         *)
(* Numbers.  JavaScript numbers are modelled as fixed-point integers:      *)
(*   - ratios, parameters in [0,1] and samples: value * Q                  *)
(*   - frequencies: centi-Hertz (value * FQ)                               *)
(*   - pitch (12*log2(f/440)): cents (value * 100), floored                *)
(* Products are rounded to the nearest unit (RDiv).  Arrays are sequences; *)
(* JavaScript index i is sequence index i+1.                               *)
(***************************************************************************)
EXTENDS Integers, Sequences, FiniteSets, TLC

(* ------------------------------ bounds --------------------------------- *)
\* length of the short input blocks (below crossfadeLength)
ShortLen == 4
\* length of the long input block (above crossfadeLength)
LongLen == 130
\* operations (setParams / processBuffer / reset) in one run of Spec
MaxOps == 3
\* audio callbacks in one run of SpecApp
MaxFrames == 2
\* ScriptProcessor nodes created in one run of SpecApp
MaxNodes == 2
\* file sources started in one run of SpecApp
MaxSources == 1
\* async calls (startListening, loadAudioFile) pending at once in SpecApp
MaxPending == 2
\* parameter updates (calls, messages, control events) in one run of SpecParams
MaxUpdates == 1
\* length of the blocks PitchDetector.detect is given in SpecDetector
DetLen == 20
\* detect calls in one run of SpecDetector
MaxDetects == 2
\* bufferSize of the detector in SpecSine, and the length of its full blocks
SineLen == 48

(* --------------------------- fixed point ------------------------------- *)
\* 1.0 in ratios, parameters and samples
Q == 100 * 100
\* 1 Hz in frequencies
FQ == 10 * 10

Min(a, b) == IF a < b THEN a ELSE b
Max(a, b) == IF a > b THEN a ELSE b
Abs(a) == IF a < 0 THEN -a ELSE a
\* a / b rounded to the nearest integer (b > 0)
RDiv(a, b) == (a + (b \div 2)) \div b
\* product and quotient of two Q-scaled numbers
MulQ(a, b) == RDiv(a * b, Q)
DivQ(a, b) == IF a <= 200000 THEN RDiv(a * Q, b) ELSE RDiv(a * 100, b \div 100)
\* JavaScript %: the remainder takes the sign of the dividend
JsRem(a, b) == IF a >= 0 THEN a % b ELSE -((-a) % b)
\* Math.round on a pitch in cents, result in semitones: floor(x + 0.5)
RoundSemis(cents) == (cents + 50) \div 100

(* --------------------- program constants ------------------------------- *)
sampleRate == 48000
crossfadeLength == 128
A4 == 440

KeyNames == <<"C", "C#", "D", "D#", "E", "F", "F#", "G", "G#", "A", "A#", "B">>
Keys == {KeyNames[i] : i \in 1..12}
ScaleNames == {"major", "minor", "pentatonic", "blues", "dorian", "mixolydian", "chromatic"}

\* this.scales
scales(name) ==
    CASE name = "major"      -> <<0, 2, 4, 5, 7, 9, 11>>
      [] name = "minor"      -> <<0, 2, 3, 5, 7, 8, 10>>
      [] name = "pentatonic" -> <<0, 2, 4, 7, 9>>
      [] name = "blues"      -> <<0, 3, 5, 6, 7, 10>>
      [] name = "dorian"     -> <<0, 2, 3, 5, 7, 9, 10>>
      [] name = "mixolydian" -> <<0, 2, 4, 5, 7, 9, 10>>
      [] name = "chromatic"  -> <<0, 1, 2, 3, 4, 5, 6, 7, 8, 9, 10, 11>>
      [] OTHER               -> <<>>

\* this.noteToSemitone[k]; -1 stands for undefined
noteToSemitone(k) ==
    IF k \in Keys THEN (CHOOSE i \in 1..12 : KeyNames[i] = k) - 1 ELSE -1

(* ------------------------- pitch arithmetic ---------------------------- *)
\* Math.pow(2, k/12) for k = 0..11, scaled by 100000
Pow12 == <<100000, 105946, 112246, 118921, 125992, 133484,
           141421, 149831, 158740, 168179, 178180, 188775>>

Pow2Int(e) == IF e = 0 THEN 1 ELSE IF e = 1 THEN 2 ELSE IF e = 2 THEN 4
              ELSE IF e = 3 THEN 8 ELSE IF e = 4 THEN 16 ELSE 32

\* A4 * Math.pow(2, n/12) in centi-Hz, n an integer number of semitones from A4
NoteFreq(n) ==
    LET oct  == n \div 12
        base == RDiv(A4 * Pow12[(n % 12) + 1], 1000)
    IN  IF oct >= 0 THEN base * Pow2Int(oct) ELSE RDiv(base, Pow2Int(-oct))

\* Math.pow(2, x/1200), Q-scaled, x in hundredths of a cent, |x| < 10000
\* (second-order expansion of exp(x ln2 / 120000))
Exp2Cents(x) == Q + ((x * 57762) \div 1000000) + ((x * x * 17) \div 100000000)

\* the notes whose frequency the model can take the logarithm of
NoteRange == (-40)..18

\* 12 * Math.log2(f / 440) in cents, floored; f in centi-Hz,
\* NoteFreq(-40) <= f < NoteFreq(18)
NoteFreqs   == [n \in NoteRange |-> NoteFreq(n)]
CentFactors == [x \in 1..99 |-> Exp2Cents(100 * x)]
Log2Cents(f) ==
    LET n0 == Cardinality({n \in NoteRange : NoteFreqs[n] <= f}) - 41
        c  == Cardinality({x \in 1..99 : (NoteFreqs[n0] * CentFactors[x]) \div Q <= f})
    IN  100 * n0 + c

\* mutant of getScaleNotes: the sum is not reduced modulo 12
getScaleNotes_noMod(k, sc) ==
    LET rootSemitone   == IF noteToSemitone(k) > 0 THEN noteToSemitone(k) ELSE 0
        scaleIntervals == IF scales(sc) # <<>> THEN scales(sc) ELSE scales("chromatic")
    IN  [i \in 1..Len(scaleIntervals) |-> rootSemitone + scaleIntervals[i]]

\* PitchCorrector.getScaleNotes: key and scale to pitch classes (C = 0)
getScaleNotes(k, sc) ==
    LET rootSemitone   == IF noteToSemitone(k) > 0 THEN noteToSemitone(k) ELSE 0
        scaleIntervals == IF scales(sc) # <<>> THEN scales(sc) ELSE scales("chromatic")
    IN  [i \in 1..Len(scaleIntervals) |-> (rootSemitone + scaleIntervals[i]) % 12]

\* Array.prototype.includes
Includes(arr, v) == \E i \in 1..Len(arr) : arr[i] = v

Infinity == 1000 * 1000 * 1000

\* the index the search loop looks up in scaleNotes for a candidate
noteIndexOf(candidate) == (JsRem(candidate, 12) + 12) % 12

\* the loop of getTargetFrequency, from `offset` on: the best note number
RECURSIVE SearchLoop(_, _, _, _, _)
SearchLoop(offset, noteNum, scaleNotes, bestDistance, bestNoteNum) ==
    IF offset > 6 THEN bestNoteNum
    ELSE LET candidate == RoundSemis(noteNum) + offset
             noteIndex == noteIndexOf(candidate)
             distance  == Abs(noteNum - 100 * candidate)
         IN  IF Includes(scaleNotes, noteIndex) /\ distance < bestDistance
             THEN SearchLoop(offset + 1, noteNum, scaleNotes, distance, candidate)
             ELSE SearchLoop(offset + 1, noteNum, scaleNotes, bestDistance, bestNoteNum)

\* the note number getTargetFrequency snaps detectedFreq (> 0) to
bestNoteNumOf(detectedFreq, scaleNotes) ==
    LET noteNum == Log2Cents(detectedFreq)
    IN  SearchLoop(-6, noteNum, scaleNotes, Infinity, RoundSemis(noteNum))

\* mutant of randomCents: the deviation is not scaled by humanize
randomCents_unscaled(hum, rnd) ==
    LET maxCentsDeviation == 15 * 100
    IN  RDiv((rnd - (Q \div 2)) * 2 * maxCentsDeviation, Q)

\* randomCents in hundredths of a cent; rnd is Math.random(), Q-scaled in [0, Q)
randomCents(hum, rnd) ==
    LET maxCentsDeviation == (hum * 15 * 100) \div Q
    IN  RDiv((rnd - (Q \div 2)) * 2 * maxCentsDeviation, Q)

\* PitchCorrector.getTargetFrequency
getTargetFrequency(detectedFreq, scaleNotes, hum, rnd) ==
    IF detectedFreq <= 0 THEN detectedFreq
    ELSE LET targetFreq == NoteFreq(bestNoteNumOf(detectedFreq, scaleNotes))
         IN  IF hum > 0
             THEN RDiv(targetFreq * Exp2Cents(randomCents(hum, rnd)), Q)
             ELSE targetFreq

(* ------------------------------ state ---------------------------------- *)
VARIABLES
    \* PitchCorrector: user parameters
    key, scale, correctionAmount, speed, humanize, formantShift, mix,
    \* PitchCorrector: internal processing state
    smoothedRatio, prevDetectedFreq, prevOutput, hasPrevOutput,
    \* the last call made on the corrector and what it was given and returned
    lastOp, inBlock, outBlock, detFreq, targetFreq, notesOut,
    \* number of operations (Spec) or audio callbacks (SpecApp) so far
    ops,
    \* WavrTuneApp: "none" (audioContext null), "suspended" or "running"
    audioCtx,
    \* WavrTuneApp: pitchDetector and pitchCorrector are constructed
    engines,
    \* WavrTuneApp: state flags and audio nodes (0 stands for null)
    isListening, isBypassed, isPlayingFile,
    processorNode, sourceNode, mediaStream, fileSource,
    \* ScriptProcessor nodes that are connected and have an onaudioprocess handler
    liveNodes,
    \* buffer sources that were started and whose ended event has not fired
    startedSources,
    \* number of nodes and of buffer sources created so far
    nodeCount, sourceCount,
    \* async calls suspended at an await: how many at each await
    pending,
    \* the control surface: knob values, key and scale selectors
    knobs, keySelect, scaleSelect,
    \* what the last audio callback pushed to the visualizer
    vizDetected, vizTarget,
    \* the argument of the last setParams call or setParams message
    paramsIn,
    \* PitchCorrector.presets, the preset table
    presetTable,
    \* the TuneProcessor instance: its fields as a record
    tune,
    \* the messages the TuneProcessor's last call posted on its port, and the
    \* number of samples it had written to its ring, when that call ended,
    \* since the audioData message or reset before
    posted, sincePost,
    \* PitchDetector: threshold and the scratch buffer yinBuffer
    threshold, yinBuffer,
    \* what the last detect and the last frequencyToNote call returned
    estimate, noteInfo,
    \* the processBuffer execution in progress (<<>> when none is)
    blk

paramVars   == <<key, scale, correctionAmount, speed, humanize, formantShift, mix>>
runtimeVars == <<smoothedRatio, prevDetectedFreq, prevOutput, hasPrevOutput>>
callVars    == <<lastOp, inBlock, outBlock, detFreq, targetFreq, notesOut>>
appVars     == <<audioCtx, engines, isListening, isBypassed, isPlayingFile,
                 processorNode, sourceNode, mediaStream, fileSource, liveNodes,
                 startedSources, nodeCount, sourceCount, pending,
                 knobs, keySelect, scaleSelect, vizDetected, vizTarget,
                 paramsIn, presetTable, tune, posted, sincePost, threshold, yinBuffer, estimate,
                 noteInfo, blk>>
auxVars     == <<paramsIn, presetTable, tune, posted, sincePost, threshold, yinBuffer, estimate,
                 noteInfo, blk>>
vars        == <<paramVars, runtimeVars, callVars, ops, appVars>>

\* new Float32Array(n)
Zeros(n) == [i \in 1..n |-> 0]

(* --------------------------- PitchCorrector ---------------------------- *)
\* Math.max(1, (this.speed / 1000) * this.sampleRate), Q-scaled
speedSamplesOf(spd) == Max(Q, (spd \div 1000) * sampleRate)

\* Math.min(1.0, inputBuffer.length / speedSamples), Q-scaled
smoothingFactorOf(len, spd) ==
    IF len * Q >= speedSamplesOf(spd) THEN Q
    ELSE DivQ(len * Q, speedSamplesOf(spd))

\* 1.0 + (shiftRatio - 1.0) * this.correctionAmount
targetRatioOf(shiftRatio, corr) == Q + MulQ(shiftRatio - Q, corr)

\* mutant of smoothRatio: every block starts again from the ratio 1.0
smoothRatio_fromUnity(old, targetRatio, smoothingFactor) ==
    Q + MulQ(targetRatio - Q, smoothingFactor)

\* mutant of smoothRatio: the coefficient inverted (1 - smoothingFactor)
smoothRatio_inverted(old, targetRatio, smoothingFactor) ==
    old + MulQ(targetRatio - old, Q - smoothingFactor)

\* this.smoothedRatio + (targetRatio - this.smoothedRatio) * smoothingFactor
smoothRatio(old, targetRatio, smoothingFactor) ==
    old + MulQ(targetRatio - old, smoothingFactor)

\* Math.cos(Math.PI * i / n), Q-scaled, 0 <= i <= n: Bhaskara's rational
\* approximation (error below 0.002, exact at 0, 1/3, 1/2, 2/3 and 1)
CosPi(i, n) ==
    IF 2 * i <= n
    THEN ((n * n - 4 * i * i) * Q) \div (n * n + i * i)
    ELSE -(((n * n - 4 * (n - i) * (n - i)) * Q) \div (n * n + (n - i) * (n - i)))

\* the Hann fade 0.5 * (1 - cos(PI * i / fadeLength))
HannFade(i, fadeLength) == (Q - CosPi(i, fadeLength)) \div 2

\* the resampling loop of grainShift: output sample at JavaScript index i
resampleAt(input, ratio, i) ==
    LET length    == Len(input)
        readPos   == i * ratio
        readIndex == readPos \div Q
        fraction  == readPos % Q
    IN  IF readIndex >= 0 /\ readIndex < length - 1
        THEN RDiv(input[readIndex + 1] * (Q - fraction)
                  + input[readIndex + 2] * fraction, Q)
        ELSE IF readIndex >= 0 /\ readIndex < length
        THEN input[readIndex + 1]
        ELSE 0

\* mutant of grainShift: only a ratio of exactly 1.0 is copied
grainShift_exactOnly(input, ratio) ==
    LET length     == Len(input)
        fadeLength == Min(64, length \div 4)
    IN  IF ratio = Q THEN input
        ELSE [k \in 1..length |->
                LET i == k - 1
                    s == resampleAt(input, ratio, i)
                IN  IF i < fadeLength THEN MulQ(s, HannFade(i, fadeLength))
                    ELSE IF length - 1 - i < fadeLength
                    THEN MulQ(s, HannFade(length - 1 - i, fadeLength))
                    ELSE s]

\* PitchCorrector.grainShift
grainShift(input, ratio) ==
    LET length     == Len(input)
        fadeLength == Min(64, length \div 4)
    IN  IF Abs(ratio - Q) < Q \div 1000 THEN input
        ELSE [k \in 1..length |->
                LET i == k - 1
                    s == resampleAt(input, ratio, i)
                IN  IF i < fadeLength THEN MulQ(s, HannFade(i, fadeLength))
                    ELSE IF length - 1 - i < fadeLength
                    THEN MulQ(s, HannFade(length - 1 - i, fadeLength))
                    ELSE s]

\* mutant of crossfadeBlocks: the stored tail is faded in even when
\* hasPrevOutput is false
crossfadeBlocks_always(current, prev, hasPrev) ==
    LET fadeLen == Min(crossfadeLength, Len(current))
    IN  [k \in 1..Len(current) |->
           LET i      == k - 1
               fadeIn == RDiv(i * Q, fadeLen)
           IN  IF i < fadeLen
               THEN RDiv(current[k] * fadeIn + prev[k] * (Q - fadeIn), Q)
               ELSE current[k]]

\* PitchCorrector.crossfadeBlocks
crossfadeBlocks(current, prev, hasPrev) ==
    IF ~hasPrev THEN current
    ELSE LET fadeLen == Min(crossfadeLength, Len(current))
         IN  [k \in 1..Len(current) |->
                LET i      == k - 1
                    fadeIn == RDiv(i * Q, fadeLen)
                IN  IF i < fadeLen
                    THEN RDiv(current[k] * fadeIn + prev[k] * (Q - fadeIn), Q)
                    ELSE current[k]]

\* the dry/wet loop of processBuffer
mixBlocks(inputBuffer, output, m) ==
    [k \in 1..Len(inputBuffer) |->
        RDiv(inputBuffer[k] * (Q - m) + output[k] * m, Q)]

\* mutant of storeTail: the head of the block is stored (tailStart = 0)
storeTail_head(prev, mixed) ==
    [k \in 1..crossfadeLength |->
        IF k - 1 < Len(mixed) THEN mixed[k] ELSE prev[k]]

\* "Store tail for next crossfade"
storeTail(prev, mixed) ==
    LET tailStart == Max(0, Len(mixed) - crossfadeLength)
    IN  [k \in 1..crossfadeLength |->
            IF tailStart + (k - 1) < Len(mixed) THEN mixed[tailStart + k]
            ELSE prev[k]]

\* mutant of passThrough: new Float32Array(inputBuffer.length), a zeroed block
passThrough_length(inputBuffer) == [k \in 1..Len(inputBuffer) |-> 0]

\* what the unvoiced fast path returns: new Float32Array(inputBuffer)
passThrough(inputBuffer) == inputBuffer

\* mutant of finishBlock: this.hasPrevOutput = true is left out
finishBlock_noFlag(mixed, newRatio, detectedFrequency, tgt) ==
    [out |-> mixed, target |-> tgt, smoothedRatio |-> newRatio,
     prevOutput |-> storeTail(prevOutput, mixed), hasPrevOutput |-> hasPrevOutput,
     prevDetectedFreq |-> detectedFrequency]

\* the end of processBuffer: store the tail, mark it present, update the
\* tracking and return the mixed block
finishBlock(mixed, newRatio, detectedFrequency, tgt) ==
    [out |-> mixed, target |-> tgt, smoothedRatio |-> newRatio,
     prevOutput |-> storeTail(prevOutput, mixed), hasPrevOutput |-> TRUE,
     prevDetectedFreq |-> detectedFrequency]

\* PitchCorrector.processBuffer: the returned block, the target frequency it
\* computed and the runtime state it leaves
processBuffer(inputBuffer, detectedFrequency, rnd) ==
    LET scaleNotes  == getScaleNotes(key, scale)
        tgt         == getTargetFrequency(detectedFrequency, scaleNotes, humanize, rnd)
    IN  IF detectedFrequency <= 0 \/ tgt <= 0
        THEN [out |-> passThrough(inputBuffer), target |-> tgt,
              smoothedRatio |-> smoothedRatio, prevOutput |-> prevOutput,
              hasPrevOutput |-> hasPrevOutput, prevDetectedFreq |-> prevDetectedFreq]
        ELSE LET shiftRatio  == DivQ(tgt, detectedFrequency)
                 targetRatio == targetRatioOf(shiftRatio, correctionAmount)
                 factor      == smoothingFactorOf(Len(inputBuffer), speed)
                 newRatio    == smoothRatio(smoothedRatio, targetRatio, factor)
                 shifted     == grainShift(inputBuffer, newRatio)
                 output      == crossfadeBlocks(shifted, prevOutput, hasPrevOutput)
                 mixed       == mixBlocks(inputBuffer, output, mix)
             IN  finishBlock(mixed, newRatio, detectedFrequency, tgt)

\* params.f !== undefined
Has(params, f) == f \in DOMAIN params

\* PitchCorrector.setParams: the parameters after the update
\* mutant of setParams: a numeric field that is absent is set to the
\* constructor's value
setParams_defaults(params) ==
    [key              |-> IF Has(params, "key") THEN params.key ELSE key,
     scale            |-> IF Has(params, "scale") THEN params.scale ELSE scale,
     correctionAmount |-> IF Has(params, "correction")
                          THEN RDiv(params.correction * Q, 100) ELSE (75 * Q) \div 100,
     speed            |-> IF Has(params, "speed")
                          THEN RDiv(params.speed * Q * 5, 10) ELSE 25 * Q,
     humanize         |-> IF Has(params, "humanize")
                          THEN RDiv(params.humanize * Q, 100) ELSE (3 * Q) \div 10,
     formantShift     |-> IF Has(params, "formant")
                          THEN RDiv((params.formant - 50) * 24 * Q, 100) ELSE 0,
     mix              |-> IF Has(params, "mix")
                          THEN RDiv(params.mix * Q, 100) ELSE (85 * Q) \div 100]

\* mutant of setParams: this.key = params.key || 'C'
setParams_keyOrC(params) ==
    [key              |-> IF Has(params, "key") THEN params.key ELSE "C",
     scale            |-> IF Has(params, "scale") THEN params.scale ELSE scale,
     correctionAmount |-> IF Has(params, "correction")
                          THEN RDiv(params.correction * Q, 100) ELSE correctionAmount,
     speed            |-> IF Has(params, "speed")
                          THEN RDiv(params.speed * Q * 5, 10) ELSE speed,
     humanize         |-> IF Has(params, "humanize")
                          THEN RDiv(params.humanize * Q, 100) ELSE humanize,
     formantShift     |-> IF Has(params, "formant")
                          THEN RDiv((params.formant - 50) * 24 * Q, 100) ELSE formantShift,
     mix              |-> IF Has(params, "mix")
                          THEN RDiv(params.mix * Q, 100) ELSE mix]

\* PitchCorrector.setParams: the parameters it leaves
setParams(params) ==
    [key              |-> IF Has(params, "key") THEN params.key ELSE key,
     scale            |-> IF Has(params, "scale") THEN params.scale ELSE scale,
     correctionAmount |-> IF Has(params, "correction")
                          THEN RDiv(params.correction * Q, 100) ELSE correctionAmount,
     speed            |-> IF Has(params, "speed")
                          THEN RDiv(params.speed * Q * 5, 10) ELSE speed,
     humanize         |-> IF Has(params, "humanize")
                          THEN RDiv(params.humanize * Q, 100) ELSE humanize,
     formantShift     |-> IF Has(params, "formant")
                          THEN RDiv((params.formant - 50) * 24 * Q, 100) ELSE formantShift,
     mix              |-> IF Has(params, "mix")
                          THEN RDiv(params.mix * Q, 100) ELSE mix]

\* mutant of reset: this.prevOutput.fill(0) is left out
reset_noFill ==
    [smoothedRatio |-> Q, prevDetectedFreq |-> 0,
     hasPrevOutput |-> FALSE, prevOutput |-> prevOutput]

\* PitchCorrector.reset: the runtime state it leaves
reset ==
    [smoothedRatio |-> Q, prevDetectedFreq |-> 0,
     hasPrevOutput |-> FALSE, prevOutput |-> Zeros(crossfadeLength)]

\* PitchCorrector.presets
presets(name) ==
    CASE name = "natural"  -> [correction |-> 40, speed |-> 50, humanize |-> 60,
                               formant |-> 50, mix |-> 70]
      [] name = "soft"     -> [correction |-> 65, speed |-> 35, humanize |-> 40,
                               formant |-> 50, mix |-> 80]
      [] name = "modern"   -> [correction |-> 75, speed |-> 25, humanize |-> 30,
                               formant |-> 50, mix |-> 85]
      [] name = "hardtune" -> [correction |-> 95, speed |-> 5, humanize |-> 5,
                               formant |-> 50, mix |-> 95]
      [] name = "tpain"    -> [correction |-> 100, speed |-> 0, humanize |-> 0,
                               formant |-> 42, mix |-> 100]

\* the internal processing state the PitchCorrector constructor sets
AssignedFresh ==
    /\ smoothedRatio = Q
    /\ prevDetectedFreq = 0
    /\ prevOutput = Zeros(crossfadeLength)
    /\ hasPrevOutput = FALSE

\* the fields the PitchCorrector constructor sets
ConstructCorrector ==
    /\ key = "C"
    /\ scale = "major"
    /\ correctionAmount = (75 * Q) \div 100
    /\ speed = 25 * Q
    /\ humanize = (3 * Q) \div 10
    /\ formantShift = 0
    /\ mix = (85 * Q) \div 100
    /\ AssignedFresh

(* ------------------------------ inputs --------------------------------- *)
\* input blocks: a rising ramp and an alternating tone
Ramp(n) == [k \in 1..n |-> (k * Q) \div (2 * n)]
Alt(n)  == [k \in 1..n |-> IF k % 2 = 1 THEN Q \div 2 ELSE -(Q \div 2)]
InputBlocks == {Ramp(ShortLen), Alt(ShortLen), Alt(ShortLen - 1), Ramp(LongLen)}

\* detected frequencies in centi-Hz: the unvoiced sentinel, zero, A3, 466 Hz
DetectedFreqs == {-1, 0, 220 * FQ, 466 * FQ}

\* values of Math.random(), Q-scaled
RandomDraws == {0, Q - 1}
DrawsFor(hum) == IF hum > 0 THEN RandomDraws ELSE {0}

\* updates the control surface sends in Spec
ParamUpdates ==
    {presets("tpain"), [correction |-> 0], [mix |-> 50], [speed |-> 5],
     [key |-> "D", scale |-> "minor"]}

\* the awaits an async call of WavrTuneApp can be suspended at
Awaits == {"startResume", "startMedia", "loadResume", "loadRead", "loadDecode"}

PresetNames == {"natural", "soft", "modern", "hardtune", "tpain"}

\* the AudioWorklet render quantum (128 frames) and the TuneProcessor's ring
\* size (2048 = 16 render quanta), scaled down
RenderQuantum == 2
tuneBufferSize == 4 * RenderQuantum

\* TuneProcessor constructor
ConstructTune ==
    /\ tune = [bypassed |-> FALSE, correctionAmount |-> (75 * Q) \div 100,
               speed |-> 25 * Q, mix |-> (85 * Q) \div 100,
               smoothedRatio |-> Q, inputRing |-> Zeros(tuneBufferSize),
               writeIndex |-> 0, samplesCollected |-> 0]
    /\ posted = <<[type |-> "ready"]>>
    /\ sincePost = 0

\* the samples written to the ring since the last audioData message or
\* reset, as the next call finds it
collectedSoFar ==
    IF posted # <<>> /\ posted[1].type = "audioData" THEN 0 ELSE sincePost

\* PitchDetector constructor; the scratch buffer has half the length of the
\* longest block detect is given
ConstructDetector ==
    /\ threshold = (15 * Q) \div 100
    /\ yinBuffer = Zeros(DetLen \div 2)

\* the scripts are loaded and nothing was called yet
ConstructRest ==
    /\ presetTable = [n \in PresetNames |-> presets(n)]
    /\ ConstructTune
    /\ ConstructDetector
    /\ paramsIn = <<>>
    /\ estimate = <<>>
    /\ noteInfo = <<>>
    /\ blk = <<>>

\* WavrTuneApp constructor; the knobs and selectors show the values
\* syncAllParams falls back to
ConstructApp ==
    /\ audioCtx = "none"
    /\ engines = FALSE
    /\ isListening = FALSE
    /\ isBypassed = FALSE
    /\ isPlayingFile = FALSE
    /\ processorNode = 0
    /\ sourceNode = 0
    /\ mediaStream = 0
    /\ fileSource = 0
    /\ liveNodes = {}
    /\ startedSources = {}
    /\ nodeCount = 0
    /\ sourceCount = 0
    /\ pending = [a \in Awaits |-> 0]
    /\ knobs = [correction |-> 75, speed |-> 25, humanize |-> 30,
                formant |-> 50, mix |-> 85]
    /\ keySelect = "C"
    /\ scaleSelect = "major"
    /\ vizDetected = 0
    /\ vizTarget = 0
    /\ ConstructRest

(* ------------------------- Spec: the corrector ------------------------- *)
Init ==
    /\ ConstructCorrector
    /\ ConstructApp
    /\ lastOp = "new"
    /\ inBlock = <<>>
    /\ outBlock = <<>>
    /\ detFreq = 0
    /\ targetFreq = 0
    /\ notesOut = <<>>
    /\ ops = 0

\* the corrector's parameters become r
AssignParams(r) ==
    /\ key' = r.key
    /\ scale' = r.scale
    /\ correctionAmount' = r.correctionAmount
    /\ speed' = r.speed
    /\ humanize' = r.humanize
    /\ formantShift' = r.formantShift
    /\ mix' = r.mix

\* the corrector's runtime state becomes r
AssignRuntime(r) ==
    /\ smoothedRatio' = r.smoothedRatio
    /\ prevDetectedFreq' = r.prevDetectedFreq
    /\ prevOutput' = r.prevOutput
    /\ hasPrevOutput' = r.hasPrevOutput

SetParams(params) ==
    /\ ops < MaxOps
    /\ AssignParams(setParams(params))
    /\ lastOp' = "setParams"
    /\ ops' = ops + 1
    /\ UNCHANGED <<runtimeVars, inBlock, outBlock, detFreq, targetFreq, notesOut, appVars>>

ProcessBuffer(inputBuffer, detectedFrequency, rnd) ==
    /\ ops < MaxOps
    /\ \E r \in {processBuffer(inputBuffer, detectedFrequency, rnd)} :
           /\ AssignRuntime(r)
           /\ outBlock' = r.out
           /\ targetFreq' = r.target
    /\ inBlock' = inputBuffer
    /\ detFreq' = detectedFrequency
    /\ lastOp' = "processBuffer"
    /\ ops' = ops + 1
    /\ UNCHANGED <<paramVars, notesOut, appVars>>

Reset ==
    /\ ops < MaxOps
    /\ AssignRuntime(reset)
    /\ lastOp' = "reset"
    /\ ops' = ops + 1
    /\ UNCHANGED <<paramVars, inBlock, outBlock, detFreq, targetFreq, notesOut, appVars>>

Next ==
    \/ \E params \in ParamUpdates : SetParams(params)
    \/ \E b \in InputBlocks, f \in DetectedFreqs, rnd \in DrawsFor(humanize) :
           ProcessBuffer(b, f, rnd)
    \/ Reset

Spec == Init /\ [][Next]_vars

(* ----------------------- claims on the corrector ----------------------- *)
\* the runtime state of a freshly constructed corrector
FreshRuntime ==
    /\ smoothedRatio = Q
    /\ prevDetectedFreq = 0
    /\ hasPrevOutput = FALSE
    /\ Len(prevOutput) = crossfadeLength
    /\ \A i \in 1..crossfadeLength : prevOutput[i] = 0

\* C1 (as claimed): whenever processBuffer ran with correctionAmount = 0, the
\* block it returned equals its input block sample for sample, for every
\* detected frequency and every earlier sequence of calls.
C1_ZeroCorrectionIsDry ==
    (lastOp = "processBuffer" /\ correctionAmount = 0) => outBlock = inBlock

\* C1 counterexample: with correctionAmount 0 and smoothedRatio 1.0 a warm
\* corrector returns a voiced block that differs from its input: the tail of
\* the block before is faded into it
C1_TailFadedIn ==
    /\ lastOp = "processBuffer"
    /\ correctionAmount = 0
    /\ smoothedRatio = Q
    /\ detFreq > 0
    /\ outBlock # inBlock

\* C2 (as claimed): the corrector is cold after construction and after reset,
\* is warm after every processBuffer call, and once warm stays warm until
\* reset.
C2_WarmAfterAnyBlock ==
    [][ /\ (lastOp' = "reset" => ~hasPrevOutput')
        /\ (lastOp' = "processBuffer" => hasPrevOutput')
        /\ ((hasPrevOutput /\ lastOp' # "reset") => hasPrevOutput') ]_vars

\* C2 (amended): the corrector is cold after construction and after reset; a
\* processBuffer call with a detected frequency > 0 leaves it warm; it turns
\* from cold to warm by nothing else (an unvoiced block and setParams leave
\* hasPrevOutput as it was), and from warm to cold only by reset.
C2_ColdWarm ==
    /\ (lastOp = "new" => ~hasPrevOutput)
    /\ [][ /\ (lastOp' = "reset" => ~hasPrevOutput')
           /\ ((lastOp' = "processBuffer" /\ detFreq' > 0) => hasPrevOutput')
           /\ ((hasPrevOutput /\ lastOp' # "reset") => hasPrevOutput')
           /\ ((~hasPrevOutput /\ hasPrevOutput')
                  => (lastOp' = "processBuffer" /\ detFreq' > 0)) ]_vars

\* C2 witness: a warm corrector that has stayed warm across an unvoiced block
C2_Witness ==
    lastOp = "processBuffer" /\ detFreq <= 0 /\ hasPrevOutput /\ ops = MaxOps

\* C3: whenever reset() was the last call, smoothedRatio is 1.0, every sample
\* of the tail buffer is 0 and hasPrevOutput is false: the runtime state of a
\* freshly constructed corrector.
C3_ResetIsFresh == lastOp = "reset" => FreshRuntime

\* C3 witness: reset after a voiced block had been processed
C3_Witness == lastOp = "reset" /\ detFreq > 0 /\ FreshRuntime

\* C7: whenever processBuffer ran with a detected frequency <= 0, or computed
\* a target frequency <= 0, the block it returned equals its input block.
C7_UnvoicedPassThrough ==
    (lastOp = "processBuffer" /\ (detFreq <= 0 \/ targetFreq <= 0))
        => outBlock = inBlock

\* C7 witness: an unvoiced block (-1) passed through a warm corrector whose
\* mix is not 0
C7_Witness ==
    /\ lastOp = "processBuffer" /\ detFreq = -1 /\ hasPrevOutput /\ mix > 0
    /\ outBlock = inBlock /\ Len(inBlock) > 0

\* C10: whenever processBuffer ran with a detected frequency > 0 under
\* correctionAmount = 1, humanize = 0 and a smoothing factor of 1, the stored
\* smoothedRatio equals targetFrequency / detectedFrequency.
C10_FullSnapRatio ==
    (/\ lastOp = "processBuffer" /\ detFreq > 0
     /\ correctionAmount = Q /\ humanize = 0
     /\ smoothingFactorOf(Len(inBlock), speed) = Q)
        => smoothedRatio = DivQ(targetFreq, detFreq)

\* C10 witness: such a block, third in the run, snapped away from ratio 1
C10_Witness ==
    /\ lastOp = "processBuffer" /\ detFreq > 0
    /\ correctionAmount = Q /\ humanize = 0
    /\ smoothingFactorOf(Len(inBlock), speed) = Q
    /\ speed > 0 /\ smoothedRatio # Q /\ ops = MaxOps

\* speeds the speed knob can set: knob values 0, 1, 2, 5, 10, 25, 50, 100
KnobSpeeds == {(v * Q) \div 2 : v \in {0, 1, 2, 5, 10, 25, 50, 100}}

\* C23: a voiced processBuffer call on a non-empty block leaves
\* smoothedRatio = old + (desired - old) * alpha with alpha =
\* min(1, N / max(1, speed/1000 * sampleRate)) in (0, 1], a value between the
\* old smoothedRatio and the desired ratio; every other call except reset
\* leaves smoothedRatio as it was, so a block starts from the value the
\* previous block left; and a smaller speed never gives a smaller alpha.
C23_SmoothingPersistent ==
    [][ LET voiced  == lastOp' = "processBuffer" /\ detFreq' > 0 /\ targetFreq' > 0
                           /\ Len(inBlock') > 0
            desired == Q + MulQ(DivQ(targetFreq', detFreq') - Q, correctionAmount)
            alpha   == smoothingFactorOf(Len(inBlock'), speed)
        IN  /\ voiced =>
                  /\ 0 < alpha /\ alpha <= Q
                  /\ smoothedRatio' = smoothedRatio
                                          + RDiv((desired - smoothedRatio) * alpha, Q)
                  /\ Min(smoothedRatio, desired) <= smoothedRatio'
                  /\ smoothedRatio' <= Max(smoothedRatio, desired)
                  /\ \A s1, s2 \in KnobSpeeds \cup {speed} :
                         s1 <= s2 => smoothingFactorOf(Len(inBlock'), s1)
                                         >= smoothingFactorOf(Len(inBlock'), s2)
            /\ (~voiced /\ lastOp' # "reset") => smoothedRatio' = smoothedRatio
      ]_vars

\* C23 witness: a voiced block with alpha below 1 that started from a
\* smoothed ratio other than 1.0 and ended strictly before the desired ratio
C23_Witness ==
    /\ lastOp = "processBuffer" /\ detFreq > 0 /\ targetFreq > 0
    /\ ops = MaxOps
    /\ smoothingFactorOf(Len(inBlock), speed) < Q
    /\ smoothedRatio # Q
    /\ smoothedRatio # Q + MulQ(DivQ(targetFreq, detFreq) - Q, correctionAmount)

\* C25: after a voiced processBuffer call on a block of N samples the tail
\* buffer still has 128 entries and hasPrevOutput is true; for N >= 128 the
\* buffer holds the last 128 samples of the block just returned, for N < 128
\* its first N entries are the returned block and the others are unchanged.
C25_TailStored ==
    [][ (lastOp' = "processBuffer" /\ detFreq' > 0 /\ targetFreq' > 0) =>
            LET N == Len(outBlock')
            IN  /\ hasPrevOutput'
                /\ Len(prevOutput') = 128
                /\ N >= 128 =>
                       \A i \in 0..127 : prevOutput'[i + 1] = outBlock'[N - 128 + i + 1]
                /\ N < 128 =>
                       \A i \in 0..127 :
                           prevOutput'[i + 1] =
                               IF i < N THEN outBlock'[i + 1] ELSE prevOutput[i + 1]
      ]_vars

\* C25 witness: a voiced block longer than 128 samples whose stored tail
\* starts after the head of the block
C25_Witness ==
    /\ lastOp = "processBuffer" /\ detFreq > 0 /\ targetFreq > 0
    /\ Len(outBlock) > crossfadeLength
    /\ hasPrevOutput
    /\ prevOutput[1] = outBlock[Len(outBlock) - crossfadeLength + 1]
    /\ prevOutput[1] # outBlock[1]

(* ------------- SpecPitch: getScaleNotes and getTargetFrequency ---------- *)
\* detected frequencies handed to getTargetFrequency: the notes D4..E5, the
\* points 50 cents above each, 466 Hz, zero and the unvoiced sentinel
PitchInputs ==
    {NoteFreq(n) : n \in (-7)..7}
        \cup {(NoteFreq(n) * Exp2Cents(5000)) \div Q : n \in (-7)..7}
        \cup {466 * FQ, 0, -1}

\* a corrector just constructed and configured by syncAllParams from the
\* selectors and knobs: any key, any scale, humanize 0, 50 or 100
InitPitch ==
    /\ key \in Keys
    /\ scale \in ScaleNames
    /\ humanize \in {RDiv(h * Q, 100) : h \in {0, 50, 100}}
    /\ correctionAmount = RDiv(75 * Q, 100)
    /\ speed = RDiv(25 * Q * 5, 10)
    /\ formantShift = 0
    /\ mix = RDiv(85 * Q, 100)
    /\ AssignedFresh
    /\ ConstructApp
    /\ lastOp = "setParams"
    /\ inBlock = <<>>
    /\ outBlock = <<>>
    /\ detFreq = 0
    /\ targetFreq = 0
    /\ notesOut = <<>>
    /\ ops = 0

\* a caller evaluates pitchCorrector.getScaleNotes(); the call record holds
\* this call alone
CallGetScaleNotes ==
    /\ notesOut' = getScaleNotes(key, scale)
    /\ lastOp' = "getScaleNotes"
    /\ detFreq' = 0
    /\ targetFreq' = 0
    /\ UNCHANGED <<paramVars, runtimeVars, inBlock, outBlock, ops, appVars>>

\* a caller evaluates getTargetFrequency(f, getScaleNotes())
CallGetTargetFrequency(f, rnd) ==
    /\ notesOut' = getScaleNotes(key, scale)
    /\ targetFreq' = getTargetFrequency(f, getScaleNotes(key, scale), humanize, rnd)
    /\ detFreq' = f
    /\ lastOp' = "getTargetFrequency"
    /\ UNCHANGED <<paramVars, runtimeVars, inBlock, outBlock, ops, appVars>>

NextPitch ==
    \/ CallGetScaleNotes
    \/ \E f \in PitchInputs, rnd \in DrawsFor(humanize) : CallGetTargetFrequency(f, rnd)

SpecPitch == InitPitch /\ [][NextPitch]_vars

\* the pitch class (C = 0 ... B = 11) of the note n semitones from A4:
\* its MIDI number is n + 69
PitchClass(n) == (n + 69) % 12

\* the pitch classes {(root + offset) mod 12} of key k and scale sc
ScaleSet(k, sc) ==
    LET root == (CHOOSE i \in 1..12 : KeyNames[i] = k) - 1
    IN  {(root + scales(sc)[j]) % 12 : j \in 1..Len(scales(sc))}

\* C8 (as claimed): with humanize = 0, getTargetFrequency of a detected
\* frequency > 0 returns the equal-tempered frequency of a note whose pitch
\* class (C = 0) is in the key/scale set, and no note of the set within 6
\* semitones of the rounded input is strictly nearer to the input.
C8_TargetInScale ==
    (lastOp = "getTargetFrequency" /\ detFreq > 0 /\ humanize = 0) =>
        LET noteNum == Log2Cents(detFreq)
            near    == {RoundSemis(noteNum) + o : o \in (-6)..6}
            inSet   == {m \in near : PitchClass(m) \in ScaleSet(key, scale)}
        IN  \E n \in inSet :
                /\ targetFreq = NoteFreq(n)
                /\ \A m \in inSet : Abs(noteNum - 100 * m) >= Abs(noteNum - 100 * n)

\* C8 counterexample: in C major a detected G4 (392.00 Hz, a note of the
\* scale) is moved to F#4 (369.99 Hz), which is not in C major
C8_GMovedToFSharp ==
    /\ lastOp = "getTargetFrequency"
    /\ key = "C" /\ scale = "major" /\ humanize = 0
    /\ detFreq = NoteFreq(-2)
    /\ targetFreq = NoteFreq(-3)
    /\ PitchClass(-3) \notin ScaleSet("C", "major")

\* C9: for each of the 12 keys and 7 scales getScaleNotes returns as many
\* values as the scale has offsets, all distinct, each an integer in 0..11,
\* and as a set {(root + offset) mod 12 : offset in scale}.
C9_ScaleNotes ==
    (lastOp = "getScaleNotes" /\ key \in Keys /\ scale \in ScaleNames) =>
        /\ Len(notesOut) = Len(scales(scale))
        /\ \A i, j \in 1..Len(notesOut) : i # j => notesOut[i] # notesOut[j]
        /\ \A i \in 1..Len(notesOut) : notesOut[i] \in 0..11
        /\ {notesOut[i] : i \in 1..Len(notesOut)} = ScaleSet(key, scale)

\* C9 witness: B major, whose offsets wrap past 11
C9_Witness ==
    /\ lastOp = "getScaleNotes" /\ key = "B" /\ scale = "major"
    /\ notesOut = <<11, 1, 3, 4, 6, 8, 10>>

\* C16: for a detected frequency > 0 the returned target lies within
\* humanize * 15 cents of the exact frequency of the note the search selected
\* (to one hundredth of a hertz), whatever the random draw of the call; with
\* humanize = 0 it is that exact frequency, so repeated calls with the same
\* input return the same value.
C16_HumanizeBound ==
    (lastOp = "getTargetFrequency" /\ detFreq > 0) =>
        LET exact    == NoteFreq(bestNoteNumOf(detFreq, notesOut))
            maxCents == (humanize * 15 * 100) \div Q
            low      == (exact * Exp2Cents(-maxCents)) \div Q
            high     == (exact * Exp2Cents(maxCents)) \div Q + 1
        IN  /\ low <= targetFreq /\ targetFreq <= high
            /\ humanize = 0 => targetFreq = exact

\* C16 witness: humanize 0.5, a detected A4 and a draw that moves the target
\* below 440 Hz
C16_Witness ==
    /\ lastOp = "getTargetFrequency"
    /\ humanize = Q \div 2
    /\ scale = "chromatic"
    /\ detFreq = A4 * FQ
    /\ targetFreq < A4 * FQ

(* --------------------- SpecApp: the application ------------------------ *)
\* WavrKnob.clamp with the knob's default range
clamp(val) == Min(100, Max(0, val))

\* syncAllParams: the parameters the control surface shows, through setParams
syncAllParams ==
    setParams([key |-> keySelect, scale |-> scaleSelect,
               correction |-> knobs.correction, speed |-> knobs.speed,
               humanize |-> knobs.humanize, formant |-> knobs.formant,
               mix |-> knobs.mix])

\* processAudioFrame without the return that ends the bypass branch
processAudioFrame_noReturn(inputData, frequency, rnd1, rnd2) ==
    LET r == processBuffer(inputData, frequency, rnd2)
    IN  [out |-> r.out, vizDetected |-> frequency, vizTarget |-> frequency,
         target |-> r.target, smoothedRatio |-> r.smoothedRatio,
         prevOutput |-> r.prevOutput, hasPrevOutput |-> r.hasPrevOutput,
         prevDetectedFreq |-> r.prevDetectedFreq]

\* processAudioFrame: the output block, what goes to the visualizer and the
\* corrector's runtime state after one audio callback; frequency is what
\* PitchDetector.detect returned for inputData, rnd1 and rnd2 the random
\* draws of the two getTargetFrequency calls
processAudioFrame(inputData, frequency, rnd1, rnd2) ==
    IF isBypassed
    THEN [out |-> inputData, vizDetected |-> frequency, vizTarget |-> frequency,
          target |-> 0, smoothedRatio |-> smoothedRatio,
          prevOutput |-> prevOutput, hasPrevOutput |-> hasPrevOutput,
          prevDetectedFreq |-> prevDetectedFreq]
    ELSE LET r == processBuffer(inputData, frequency, rnd2)
         IN  [out |-> r.out, vizDetected |-> frequency,
              vizTarget |-> IF frequency > 0
                            THEN getTargetFrequency(frequency,
                                     getScaleNotes(key, scale), humanize, rnd1)
                            ELSE frequency,
              target |-> r.target, smoothedRatio |-> r.smoothedRatio,
              prevOutput |-> r.prevOutput, hasPrevOutput |-> r.hasPrevOutput,
              prevDetectedFreq |-> r.prevDetectedFreq]

TotalPending ==
    pending.startResume + pending.startMedia + pending.loadResume
        + pending.loadRead + pending.loadDecode
PendingStarts == pending.startResume + pending.startMedia
PendingLoads == pending.loadResume + pending.loadRead + pending.loadDecode
PendInc(a) == [pending EXCEPT ![a] = @ + 1]
PendDec(a) == [pending EXCEPT ![a] = @ - 1]
PendMove(a, b) == [pending EXCEPT ![a] = @ - 1, ![b] = @ + 1]

\* initAudio after the context runs: the engines are constructed, then
\* syncAllParams
CreateEngines ==
    /\ audioCtx' = "running"
    /\ engines' = TRUE
    /\ AssignParams(syncAllParams)

\* the callers of initAudio that find a context return at once
KeepEngines == UNCHANGED <<audioCtx, engines, paramVars>>

\* stopFile
StopFile ==
    /\ fileSource' = 0
    /\ isPlayingFile' = FALSE

\* stopListening, but for isPlayingFile and the corrector when none was
\* constructed before this step
StopNodes ==
    /\ liveNodes' = liveNodes \ {processorNode}
    /\ processorNode' = 0
    /\ sourceNode' = 0
    /\ mediaStream' = 0
    /\ isListening' = FALSE

nodeVars == <<liveNodes, processorNode, sourceNode, mediaStream, isListening>>
uiVars   == <<knobs, keySelect, scaleSelect, isBypassed>>
obsVars  == <<inBlock, outBlock, detFreq, targetFreq, notesOut, vizDetected,
              vizTarget, ops>>

InitApp ==
    /\ ConstructCorrector
    /\ ConstructApp
    /\ lastOp = "new"
    /\ inBlock = <<>>
    /\ outBlock = <<>>
    /\ detFreq = 0
    /\ targetFreq = 0
    /\ notesOut = <<>>
    /\ ops = 0

\* a click on Start while isListening is false: toggleListening,
\* startListening up to the first await that suspends it
StartListening ==
    /\ ~isListening
    /\ TotalPending < MaxPending
    /\ nodeCount + PendingStarts < MaxNodes
    /\ \/ /\ audioCtx = "none"
          /\ audioCtx' = "suspended"
          /\ pending' = PendInc("startResume")
          /\ UNCHANGED <<engines, paramVars, runtimeVars, fileSource,
                         isPlayingFile>>
       \/ /\ audioCtx = "none"
          /\ CreateEngines
          /\ AssignRuntime(reset)
          /\ StopFile
          /\ pending' = PendInc("startMedia")
       \/ /\ audioCtx # "none"
          /\ KeepEngines
          /\ StopFile
          /\ pending' = PendInc("startMedia")
          /\ UNCHANGED runtimeVars
    /\ lastOp' = "toggleListening"
    /\ UNCHANGED <<nodeVars, uiVars, auxVars, obsVars, startedSources, nodeCount,
                   sourceCount>>

\* audioContext.resume() resolves for the startListening that created the
\* context: initAudio completes, startListening goes on to getUserMedia
StartResumed ==
    /\ pending.startResume > 0
    /\ CreateEngines
    /\ AssignRuntime(reset)
    /\ StopFile
    /\ pending' = PendMove("startResume", "startMedia")
    /\ lastOp' = "initAudio"
    /\ UNCHANGED <<nodeVars, uiVars, auxVars, obsVars, startedSources, nodeCount,
                   sourceCount>>

\* getUserMedia resolves: startListening creates the source and the
\* ScriptProcessor, attaches the callback and sets isListening
MicGranted ==
    /\ pending.startMedia > 0
    /\ nodeCount < MaxNodes
    /\ nodeCount' = nodeCount + 1
    /\ mediaStream' = nodeCount + 1
    /\ sourceNode' = nodeCount + 1
    /\ processorNode' = nodeCount + 1
    /\ liveNodes' = liveNodes \cup {nodeCount + 1}
    /\ isListening' = TRUE
    /\ pending' = PendDec("startMedia")
    /\ lastOp' = "startListening"
    /\ UNCHANGED <<audioCtx, engines, paramVars, runtimeVars, uiVars, auxVars, obsVars,
                   fileSource, isPlayingFile, startedSources, sourceCount>>

\* getUserMedia rejects: the catch block of startListening
MicDenied ==
    /\ pending.startMedia > 0
    /\ pending' = PendDec("startMedia")
    /\ lastOp' = "getUserMedia:rejected"
    /\ UNCHANGED <<audioCtx, engines, paramVars, runtimeVars, nodeVars, uiVars, auxVars,
                   obsVars, fileSource, isPlayingFile, startedSources,
                   nodeCount, sourceCount>>

\* a click on Start while isListening is true: toggleListening, stopListening
StopListening ==
    /\ isListening
    /\ StopNodes
    /\ IF engines THEN AssignRuntime(reset) ELSE UNCHANGED runtimeVars
    /\ lastOp' = "stopListening"
    /\ UNCHANGED <<audioCtx, engines, paramVars, uiVars, auxVars, obsVars, fileSource,
                   isPlayingFile, startedSources, nodeCount, sourceCount,
                   pending>>

\* a file is chosen: loadAudioFile up to the first await that suspends it
LoadAudioFile ==
    /\ TotalPending < MaxPending
    /\ sourceCount + PendingLoads < MaxSources
    /\ \/ /\ audioCtx = "none"
          /\ audioCtx' = "suspended"
          /\ pending' = PendInc("loadResume")
          /\ UNCHANGED <<engines, paramVars, runtimeVars, nodeVars, fileSource,
                         isPlayingFile>>
       \/ /\ audioCtx = "none"
          /\ CreateEngines
          /\ StopNodes
          /\ AssignRuntime(reset)
          /\ StopFile
          /\ pending' = PendInc("loadRead")
       \/ /\ audioCtx # "none"
          /\ KeepEngines
          /\ StopNodes
          /\ IF engines THEN AssignRuntime(reset) ELSE UNCHANGED runtimeVars
          /\ StopFile
          /\ pending' = PendInc("loadRead")
    /\ lastOp' = "loadAudioFile"
    /\ UNCHANGED <<uiVars, auxVars, obsVars, startedSources, nodeCount, sourceCount>>

\* audioContext.resume() resolves for the loadAudioFile that created the
\* context: initAudio completes, loadAudioFile stops the microphone and the
\* file and starts to read
LoadResumed ==
    /\ pending.loadResume > 0
    /\ CreateEngines
    /\ StopNodes
    /\ AssignRuntime(reset)
    /\ StopFile
    /\ pending' = PendMove("loadResume", "loadRead")
    /\ lastOp' = "initAudio"
    /\ UNCHANGED <<uiVars, auxVars, obsVars, startedSources, nodeCount, sourceCount>>

\* file.arrayBuffer() resolves: decodeAudioData is called
LoadRead ==
    /\ pending.loadRead > 0
    /\ pending' = PendMove("loadRead", "loadDecode")
    /\ lastOp' = "arrayBuffer"
    /\ UNCHANGED <<audioCtx, engines, paramVars, runtimeVars, nodeVars, uiVars, auxVars,
                   obsVars, fileSource, isPlayingFile, startedSources,
                   nodeCount, sourceCount>>

\* decodeAudioData resolves: processFileForVisualization, then playFile;
\* with no detector constructed yet the analysis of a file longer than one
\* chunk throws and playFile is not reached
LoadDecoded ==
    /\ pending.loadDecode > 0
    /\ pending' = PendDec("loadDecode")
    /\ \/ /\ fileSource' = sourceCount + 1
          /\ sourceCount' = sourceCount + 1
          /\ startedSources' = startedSources \cup {sourceCount + 1}
          /\ isPlayingFile' = TRUE
          /\ lastOp' = "playFile"
       \/ /\ ~engines
          /\ lastOp' = "loadAudioFile:error"
          /\ UNCHANGED <<fileSource, sourceCount, startedSources,
                         isPlayingFile>>
    /\ UNCHANGED <<audioCtx, engines, paramVars, runtimeVars, nodeVars, uiVars, auxVars,
                   obsVars, nodeCount>>

\* decodeAudioData rejects: the catch block of loadAudioFile
LoadFailed ==
    /\ pending.loadDecode > 0
    /\ pending' = PendDec("loadDecode")
    /\ lastOp' = "loadAudioFile:error"
    /\ UNCHANGED <<audioCtx, engines, paramVars, runtimeVars, nodeVars, uiVars, auxVars,
                   obsVars, fileSource, isPlayingFile, startedSources,
                   nodeCount, sourceCount>>

\* the ended event of a started buffer source: the onended handler of playFile
FileEnded(s) ==
    /\ s \in startedSources
    /\ startedSources' = startedSources \ {s}
    /\ isPlayingFile' = FALSE
    /\ lastOp' = "onended"
    /\ UNCHANGED <<audioCtx, engines, paramVars, runtimeVars, nodeVars, uiVars, auxVars,
                   obsVars, fileSource, nodeCount, sourceCount, pending>>

\* the onaudioprocess callback of a connected ScriptProcessor node
AudioProcess(n, inputData, frequency, rnd1, rnd2) ==
    /\ n \in liveNodes
    /\ audioCtx = "running"
    /\ ops < MaxFrames
    /\ \E r \in {processAudioFrame(inputData, frequency, rnd1, rnd2)} :
           /\ AssignRuntime(r)
           /\ outBlock' = r.out
           /\ targetFreq' = r.target
           /\ vizDetected' = r.vizDetected
           /\ vizTarget' = r.vizTarget
    /\ inBlock' = inputData
    /\ detFreq' = frequency
    /\ ops' = ops + 1
    /\ lastOp' = "processAudioFrame"
    /\ UNCHANGED <<audioCtx, engines, paramVars, nodeVars, uiVars, auxVars, notesOut,
                   fileSource, isPlayingFile, startedSources, nodeCount,
                   sourceCount, pending>>

\* a click on the bypass button
ToggleBypass ==
    /\ isBypassed' = ~isBypassed
    /\ lastOp' = "bypass"
    /\ UNCHANGED <<audioCtx, engines, paramVars, runtimeVars, nodeVars, knobs,
                   keySelect, scaleSelect, obsVars, fileSource, isPlayingFile,
                   startedSources, nodeCount, sourceCount, pending, auxVars>>

\* a knob is turned: its onChange callback
KnobChange(param, value) ==
    /\ knobs[param] # value
    /\ knobs' = [knobs EXCEPT ![param] = value]
    /\ IF engines THEN AssignParams(setParams(param :> value))
                  ELSE UNCHANGED paramVars
    /\ lastOp' = "onChange"
    /\ UNCHANGED <<audioCtx, engines, runtimeVars, nodeVars, keySelect,
                   scaleSelect, isBypassed, obsVars, fileSource, isPlayingFile,
                   startedSources, nodeCount, sourceCount, pending, auxVars>>

\* a click on a preset button: applyPreset
ApplyPreset(name) ==
    /\ knobs # [p \in DOMAIN knobs |-> clamp(presetTable[name][p])]
    /\ knobs' = [p \in DOMAIN knobs |-> clamp(presetTable[name][p])]
    /\ IF engines THEN AssignParams(setParams(presetTable[name]))
                  ELSE UNCHANGED paramVars
    /\ lastOp' = "applyPreset"
    /\ UNCHANGED <<audioCtx, engines, runtimeVars, nodeVars, keySelect,
                   scaleSelect, isBypassed, obsVars, fileSource, isPlayingFile,
                   startedSources, nodeCount, sourceCount, pending, auxVars>>

\* what the control surface does in SpecApp
AppBlocks == {Ramp(ShortLen), Alt(ShortLen)}
AppDetections == {-1, 220 * FQ}
AppKnobTurns == {<<"correction", 0>>}
AppPresets == {"tpain"}

\* the microphone path: sessions, audio callbacks and the control surface
NextApp ==
    \/ StartListening
    \/ StartResumed
    \/ MicGranted
    \/ MicDenied
    \/ StopListening
    \/ \E n \in liveNodes, b \in AppBlocks, f \in AppDetections,
          rnd1 \in DrawsFor(humanize), rnd2 \in DrawsFor(humanize) :
           AudioProcess(n, b, f, rnd1, rnd2)
    \/ ToggleBypass
    \/ \E t \in AppKnobTurns : KnobChange(t[1], t[2])
    \/ \E name \in AppPresets : ApplyPreset(name)

\* the file path next to the microphone path: no audio callback is taken
NextFile ==
    \/ StartListening
    \/ StartResumed
    \/ MicGranted
    \/ MicDenied
    \/ StopListening
    \/ LoadAudioFile
    \/ LoadResumed
    \/ LoadRead
    \/ LoadDecoded
    \/ LoadFailed
    \/ \E s \in startedSources : FileEnded(s)

SpecApp == InitApp /\ [][NextApp]_vars

SpecFile == InitApp /\ [][NextFile]_vars

(* ------------------------ claims on the application -------------------- *)
\* C4 (as claimed): whenever startListening has just completed, a microphone
\* session begins, the corrector's runtime state is the initial one
\* (smoothedRatio 1.0, tail all zero, hasPrevOutput false): no block was
\* processed since the reset of the last teardown.
C4_SessionStartsFresh == lastOp = "startListening" => FreshRuntime

\* C4 counterexample: a session begins while the corrector holds the tail of
\* a block that came from the node of an earlier startListening call
C4_StaleSessionStart ==
    /\ lastOp = "startListening"
    /\ hasPrevOutput
    /\ processorNode = MaxNodes
    /\ Cardinality(liveNodes) = MaxNodes

\* C5 (as claimed): at most one ScriptProcessor node with an onaudioprocess
\* handler is connected at any moment, and after stopListening none is.
C5_SingleCallback ==
    /\ Cardinality(liveNodes) <= 1
    /\ (lastOp = "stopListening" => liveNodes = {})

\* C5 counterexample: stopListening has run, isListening is false, and a
\* node with the callback attached is still connected and has just fed a
\* voiced block to the corrector
C5_OrphanCallback ==
    /\ ~isListening
    /\ processorNode = 0
    /\ liveNodes # {}
    /\ lastOp = "processAudioFrame"
    /\ hasPrevOutput

\* C6: every audio callback taken while isBypassed is true writes an output
\* block equal to its input block and leaves smoothedRatio, prevDetectedFreq,
\* the tail buffer and hasPrevOutput as they were.
C6_BypassSkipsCorrector ==
    [][ (isBypassed /\ lastOp' = "processAudioFrame" /\ ops' = ops + 1)
            => (outBlock' = inBlock' /\ UNCHANGED runtimeVars) ]_vars

\* C6 witness: a bypassed callback with a voiced block, full correction and
\* a warm corrector
C6_Witness ==
    /\ lastOp = "processAudioFrame"
    /\ isBypassed
    /\ detFreq > 0
    /\ correctionAmount = Q
    /\ hasPrevOutput
    /\ outBlock = inBlock

\* C30 (as claimed): in a non-bypassed audio callback with a voiced
\* detection, the target frequency pushed to the visualizer is the target
\* frequency processBuffer used for the block's shift ratio, whatever the
\* humanize setting.
C30_VisualizerShowsUsedTarget ==
    lastOp = "processAudioFrame" /\ ~ isBypassed /\ detFreq > 0
      => vizTarget = targetFreq

\* C30 counterexample: with humanize on, the callback's two
\* getTargetFrequency calls drew different random offsets
C30_TargetsDiffer ==
    /\ lastOp = "processAudioFrame" /\ ~ isBypassed /\ detFreq > 0
    /\ humanize > 0
    /\ vizTarget # targetFreq

\* with humanize off the two targets agree
C30_SameTargetWithoutHumanize ==
    lastOp = "processAudioFrame" /\ ~ isBypassed /\ detFreq > 0 /\ humanize = 0
      => vizTarget = targetFreq

(* ------------------- SpecParams: parameter updates --------------------- *)
\* TuneProcessor.handleMessage: the TuneProcessor's fields after the message
handleMessage(data) ==
    CASE data.type = "setParams" ->
           [tune EXCEPT
              !.correctionAmount = IF Has(data, "correction")
                                   THEN RDiv(data.correction * Q, 100) ELSE @,
              !.speed = IF Has(data, "speed") THEN data.speed * Q ELSE @,
              !.mix = IF Has(data, "mix") THEN RDiv(data.mix * Q, 100) ELSE @]
      [] data.type = "bypass" -> [tune EXCEPT !.bypassed = data.value]
      [] data.type = "reset" ->
           [tune EXCEPT !.smoothedRatio = Q,
                        !.inputRing = [i \in DOMAIN @ |-> 0],
                        !.writeIndex = 0, !.samplesCollected = 0]
      [] OTHER -> tune

\* PitchDetector.setThreshold: the threshold it stores
setThreshold(value) == Max((1 * Q) \div 100, Min((5 * Q) \div 10, value))

\* the wheel handler of a knob: the knob's value after one notch
wheelValue(value, direction, shiftKey) ==
    clamp(value + direction * (IF shiftKey THEN 1 * 5 ELSE 1))

\* restriction of an update to the fields in S
Restrict(r, S) == [f \in S |-> r[f]]

Fields == {"key", "scale", "correction", "speed", "humanize", "formant", "mix"}

\* updates with values inside and outside 0..100
InRange == [key |-> "D", scale |-> "minor", correction |-> 40, speed |-> 50,
            humanize |-> 60, formant |-> 42, mix |-> 70]
OutOfRange == [key |-> "F#", scale |-> "blues", correction |-> 150,
               speed |-> -20, humanize |-> 130, formant |-> 120, mix |-> -10]
AllUpdates == {Restrict(r, S) : r \in {InRange, OutOfRange}, S \in SUBSET Fields}
AllMessages ==
    {[f \in S \cup {"type"} |-> IF f = "type" THEN "setParams" ELSE r[f]] :
        r \in {InRange, OutOfRange},
        S \in SUBSET {"correction", "speed", "humanize", "formant", "mix"}}
ThresholdValues == {0, (5 * Q) \div 100, (3 * Q) \div 10, Q}

\* the application after initAudio, with the knobs showing a preset
InitParams ==
    /\ \E n \in PresetNames :
           /\ knobs = presets(n)
           /\ correctionAmount = RDiv(presets(n).correction * Q, 100)
           /\ speed = RDiv(presets(n).speed * Q * 5, 10)
           /\ humanize = RDiv(presets(n).humanize * Q, 100)
           /\ formantShift = RDiv((presets(n).formant - 50) * 24 * Q, 100)
           /\ mix = RDiv(presets(n).mix * Q, 100)
    /\ \E k \in {"C", "A"} : key = k /\ keySelect = k
    /\ scale = "major"
    /\ scaleSelect = "major"
    /\ AssignedFresh
    /\ audioCtx = "running"
    /\ engines = TRUE
    /\ isListening = FALSE
    /\ isBypassed = FALSE
    /\ isPlayingFile = FALSE
    /\ processorNode = 0
    /\ sourceNode = 0
    /\ mediaStream = 0
    /\ fileSource = 0
    /\ liveNodes = {}
    /\ startedSources = {}
    /\ nodeCount = 0
    /\ sourceCount = 0
    /\ pending = [a \in Awaits |-> 0]
    /\ vizDetected = 0
    /\ vizTarget = 0
    /\ ConstructRest
    /\ lastOp = "initAudio"
    /\ inBlock = <<>>
    /\ outBlock = <<>>
    /\ detFreq = 0
    /\ targetFreq = 0
    /\ notesOut = <<>>
    /\ ops = 0

appRest == <<audioCtx, engines, nodeVars, isBypassed, fileSource, isPlayingFile,
             startedSources, nodeCount, sourceCount, pending, vizDetected,
             vizTarget, inBlock, outBlock, detFreq, targetFreq, notesOut>>

\* pitchCorrector.setParams(params)
UpdateParams(params) ==
    /\ ops < MaxUpdates
    /\ AssignParams(setParams(params))
    /\ paramsIn' = params
    /\ lastOp' = "setParams"
    /\ ops' = ops + 1
    /\ UNCHANGED <<runtimeVars, appRest, knobs, keySelect, scaleSelect,
                   presetTable, tune, posted, sincePost, threshold, yinBuffer, estimate, noteInfo,
                   blk>>

\* a message arrives at the TuneProcessor's port
PostMessage(data) ==
    /\ ops < MaxUpdates
    /\ tune' = handleMessage(data)
    /\ posted' = <<>>
    /\ sincePost' = (IF data.type = "reset" THEN 0 ELSE collectedSoFar)
    /\ paramsIn' = data
    /\ lastOp' = "message:" \o data.type
    /\ ops' = ops + 1
    /\ UNCHANGED <<paramVars, runtimeVars, appRest, knobs, keySelect,
                   scaleSelect, presetTable, threshold, yinBuffer, estimate,
                   noteInfo, blk>>

\* pitchDetector.setThreshold(value)
SetThreshold(value) ==
    /\ ops < MaxUpdates
    /\ threshold' = setThreshold(value)
    /\ lastOp' = "setThreshold"
    /\ ops' = ops + 1
    /\ UNCHANGED <<paramVars, runtimeVars, appRest, knobs, keySelect,
                   scaleSelect, paramsIn, presetTable, tune, posted, sincePost, yinBuffer,
                   estimate, noteInfo, blk>>

\* the wheel is turned over a knob: the knob's value, then its onChange
KnobWheel(param, direction, shiftKey) ==
    /\ ops < MaxUpdates
    /\ \E v \in {wheelValue(knobs[param], direction, shiftKey)} :
           /\ knobs' = [knobs EXCEPT ![param] = v]
           /\ IF engines THEN AssignParams(setParams(param :> v))
                         ELSE UNCHANGED paramVars
           /\ paramsIn' = (param :> v)
    /\ lastOp' = "wheel"
    /\ ops' = ops + 1
    /\ UNCHANGED <<runtimeVars, appRest, keySelect, scaleSelect, presetTable,
                   tune, posted, sincePost, threshold, yinBuffer, estimate, noteInfo, blk>>

NextParams ==
    \/ \E params \in AllUpdates : UpdateParams(params)
    \/ \E data \in AllMessages : PostMessage(data)
    \/ \E name \in PresetNames : ApplyPreset(name)
    \/ \E value \in ThresholdValues : SetThreshold(value)
    \/ \E param \in DOMAIN knobs, direction \in {-1, 1}, shiftKey \in BOOLEAN :
           KnobWheel(param, direction, shiftKey)

SpecParams == InitParams /\ [][NextParams]_vars

(* ---------------------- claims on parameter updates -------------------- *)
\* C11: a setParams call sets each stored parameter whose field is present in
\* the argument to the value mapped from that field and leaves every
\* parameter whose field is absent as it was; with an empty argument nothing
\* changes.
C11_PartialUpdate ==
    [][ lastOp' = "setParams" =>
          /\ key' = IF Has(paramsIn', "key") THEN paramsIn'.key ELSE key
          /\ scale' = IF Has(paramsIn', "scale") THEN paramsIn'.scale ELSE scale
          /\ correctionAmount' = IF Has(paramsIn', "correction")
                                 THEN (paramsIn'.correction * Q) \div 100
                                 ELSE correctionAmount
          /\ speed' = IF Has(paramsIn', "speed")
                      THEN (paramsIn'.speed * Q) \div 2 ELSE speed
          /\ humanize' = IF Has(paramsIn', "humanize")
                         THEN (paramsIn'.humanize * Q) \div 100 ELSE humanize
          /\ formantShift' = IF Has(paramsIn', "formant")
                             THEN ((paramsIn'.formant - 50) * 24 * Q) \div 100
                             ELSE formantShift
          /\ mix' = IF Has(paramsIn', "mix")
                    THEN (paramsIn'.mix * Q) \div 100 ELSE mix ]_vars

\* C11 witness: an update of speed and mix alone has left the correction
\* amount, humanize and formant shift of the tpain preset and the key A
C11_Witness ==
    /\ lastOp = "setParams"
    /\ DOMAIN paramsIn = {"speed", "mix"}
    /\ key = "A"
    /\ correctionAmount = Q
    /\ humanize = 0
    /\ formantShift = ((42 - 50) * 24 * Q) \div 100
    /\ speed = 25 * Q
    /\ mix = (7 * Q) \div 10

\* C12 (as claimed): the stored parameters are always within their domains:
\* correctionAmount, humanize and mix in [0, 1], speed in [0, 50] ms,
\* formantShift in [-12, 12]; the detector's threshold is in [0.01, 0.5] and
\* every knob value in [0, 100].
C12_StoredInRange ==
    /\ correctionAmount \in 0..Q
    /\ speed \in 0..(50 * Q)
    /\ humanize \in 0..Q
    /\ formantShift \in (-12 * Q)..(12 * Q)
    /\ mix \in 0..Q
    /\ threshold \in ((1 * Q) \div 100)..((5 * Q) \div 10)
    /\ \A p \in DOMAIN knobs : knobs[p] \in 0..100

\* C12 counterexample: setParams({correction: 150}) has stored 1.5
C12_Stored150 ==
    /\ lastOp = "setParams"
    /\ DOMAIN paramsIn = {"correction"}
    /\ paramsIn.correction = 150
    /\ correctionAmount = (15 * Q) \div 10

\* C13 (as claimed): after a setParams call and after a setParams message
\* each provided value v is stored as correction v/100, speed v*0.5,
\* humanize v/100, formant (v-50)*0.24 and mix v/100, in the corrector and in
\* the TuneProcessor alike.
C13_SameMapping ==
    /\ lastOp = "setParams" =>
         /\ Has(paramsIn, "correction")
              => correctionAmount = (paramsIn.correction * Q) \div 100
         /\ Has(paramsIn, "speed") => speed = (paramsIn.speed * Q) \div 2
         /\ Has(paramsIn, "humanize")
              => humanize = (paramsIn.humanize * Q) \div 100
         /\ Has(paramsIn, "formant")
              => formantShift = ((paramsIn.formant - 50) * 24 * Q) \div 100
         /\ Has(paramsIn, "mix") => mix = (paramsIn.mix * Q) \div 100
    /\ lastOp = "message:setParams" =>
         /\ Has(paramsIn, "correction")
              => tune.correctionAmount = (paramsIn.correction * Q) \div 100
         /\ Has(paramsIn, "speed") => tune.speed = (paramsIn.speed * Q) \div 2
         /\ Has(paramsIn, "humanize")
              => (Has(tune, "humanize")
                    /\ tune.humanize = (paramsIn.humanize * Q) \div 100)
         /\ Has(paramsIn, "formant")
              => (Has(tune, "formantShift")
                    /\ tune.formantShift
                         = ((paramsIn.formant - 50) * 24 * Q) \div 100)
         /\ Has(paramsIn, "mix") => tune.mix = (paramsIn.mix * Q) \div 100

\* C13 counterexample: the message {type: 'setParams', speed: 50} has stored
\* speed 50 in the TuneProcessor, where setParams({speed: 50}) stores 25 ms
C13_SpeedNotHalved ==
    /\ lastOp = "message:setParams"
    /\ DOMAIN paramsIn = {"type", "speed"}
    /\ paramsIn.speed = 50
    /\ tune.speed = 50 * Q

C27_MicFileExclusive == ~ (isListening /\ isPlayingFile)

\* C27 counterexample: the microphone session of a startListening call that
\* was waiting for getUserMedia begins while the file started in between is
\* playing
C27_MicDuringPlayback ==
    /\ lastOp = "startListening"
    /\ isListening /\ isPlayingFile
    /\ fileSource \in startedSources
    /\ processorNode \in liveNodes

(* --------------- SpecBlock: one block against control events ----------- *)
\* mutant of MainThreadIdle: a control event is dispatched while
\* processBuffer runs
MainThreadIdle_always == TRUE

\* the main thread runs no processBuffer call: processBuffer is synchronous,
\* so a handler of the same thread starts only when it has returned
MainThreadIdle == blk = <<>>

\* the parameters processBuffer reads
paramsRead ==
    [key |-> key, scale |-> scale, humanize |-> humanize,
     correctionAmount |-> correctionAmount, speed |-> speed, mix |-> mix]

\* processBuffer up to the crossfade: the pass-through return, or the
\* crossfaded block with the smoothed ratio assigned
beginBlock(inputBuffer, detectedFrequency, rnd) ==
    LET scaleNotes  == getScaleNotes(key, scale)
        tgt         == getTargetFrequency(detectedFrequency, scaleNotes, humanize, rnd)
    IN  IF detectedFrequency <= 0 \/ tgt <= 0
        THEN [returned |-> TRUE, out |-> passThrough(inputBuffer), target |-> tgt]
        ELSE LET shiftRatio  == DivQ(tgt, detectedFrequency)
                 targetRatio == targetRatioOf(shiftRatio, correctionAmount)
                 factor      == smoothingFactorOf(Len(inputBuffer), speed)
                 newRatio    == smoothRatio(smoothedRatio, targetRatio, factor)
                 shifted     == grainShift(inputBuffer, newRatio)
             IN  [returned |-> FALSE, target |-> tgt, newRatio |-> newRatio,
                  inputBuffer |-> inputBuffer,
                  detectedFrequency |-> detectedFrequency,
                  shifted |-> shifted,
                  output |-> crossfadeBlocks(shifted, prevOutput, hasPrevOutput),
                  seen |-> paramsRead]

blockRest == <<audioCtx, engines, nodeVars, uiVars, fileSource, isPlayingFile,
               startedSources, nodeCount, sourceCount, pending, vizDetected,
               vizTarget, notesOut, paramsIn, presetTable, tune, posted, sincePost, threshold,
               yinBuffer, estimate, noteInfo>>

\* an audio callback enters processBuffer
BlockStart(inputBuffer, detectedFrequency, rnd) ==
    /\ MainThreadIdle
    /\ ops < MaxFrames
    /\ \E b \in {beginBlock(inputBuffer, detectedFrequency, rnd)} :
           /\ targetFreq' = b.target
           /\ IF b.returned
              THEN /\ outBlock' = b.out
                   /\ lastOp' = "processBuffer"
                   /\ UNCHANGED <<blk, smoothedRatio>>
              ELSE /\ blk' = b
                   /\ smoothedRatio' = b.newRatio
                   /\ lastOp' = "processBuffer:started"
                   /\ UNCHANGED outBlock
    /\ inBlock' = inputBuffer
    /\ detFreq' = detectedFrequency
    /\ ops' = ops + 1
    /\ UNCHANGED <<paramVars, prevDetectedFreq, prevOutput, hasPrevOutput,
                   blockRest>>

\* processBuffer from the dry/wet mix to its return
BlockFinish ==
    /\ blk # <<>>
    /\ \E r \in {finishBlock(mixBlocks(blk.inputBuffer, blk.output, mix),
                             blk.newRatio, blk.detectedFrequency, blk.target)} :
           /\ AssignRuntime(r)
           /\ outBlock' = r.out
    /\ blk' = <<>>
    /\ lastOp' = "processBuffer"
    /\ UNCHANGED <<paramVars, inBlock, detFreq, targetFreq, ops, blockRest>>

\* the key or scale selector changes: onScaleChange
OnScaleChange(k, sc) ==
    /\ <<keySelect, scaleSelect>> # <<k, sc>>
    /\ keySelect' = k
    /\ scaleSelect' = sc
    /\ IF engines THEN AssignParams(setParams([key |-> k, scale |-> sc]))
                  ELSE UNCHANGED paramVars
    /\ lastOp' = "onScaleChange"
    /\ UNCHANGED <<audioCtx, engines, runtimeVars, nodeVars, knobs, isBypassed,
                   obsVars, fileSource, isPlayingFile, startedSources,
                   nodeCount, sourceCount, pending, auxVars>>

BlockKnobTurns == {<<"mix", 50>>, <<"speed", 100>>}
\* the blocks the audio callbacks deliver in SpecBlock
BlockBlocks == AppBlocks \cup {Ramp(LongLen)}

NextBlock ==
    \/ \E b \in BlockBlocks, f \in AppDetections, rnd \in DrawsFor(humanize) :
           BlockStart(b, f, rnd)
    \/ BlockFinish
    \/ MainThreadIdle /\ \E t \in BlockKnobTurns : KnobChange(t[1], t[2])
    \/ MainThreadIdle /\ \E name \in AppPresets : ApplyPreset(name)
    \/ MainThreadIdle /\ OnScaleChange("A", "minor")

SpecBlock == InitParams /\ [][NextBlock]_vars

\* C15: while a processBuffer call is in progress the parameters are the
\* ones it read when it started, so the mix it reads at its end belongs to
\* the same parameter set as the key, scale, humanize, correction amount and
\* speed it read at its start.
C15_NoMidBlockUpdate == blk # <<>> => paramsRead = blk.seen

\* C15 witness: the second block in progress, after a knob turn that came
\* between the two blocks
C15_Witness ==
    /\ blk # <<>>
    /\ hasPrevOutput
    /\ ops = MaxFrames
    /\ blk.seen.mix = Q \div 2
    /\ mix = Q \div 2

\* C24: the block processBuffer goes on with after the crossfade step is,
\* when the corrector is warm, for L = min(128, N): current[i] * (i / L) +
\* previousTail[i] * (1 - i / L) at every i < L and current[i] at every
\* i >= L; when the corrector is cold it is the shifted block unchanged.
C24_Crossfade ==
    blk # <<>> =>
        LET current == blk.shifted
            N       == Len(current)
            L       == Min(128, N)
        IN  /\ Len(blk.output) = N
            /\ IF hasPrevOutput
               THEN \A i \in 0..(N - 1) :
                        blk.output[i + 1] =
                            IF i < L
                            THEN RDiv(current[i + 1] * RDiv(i * Q, L)
                                      + prevOutput[i + 1] * (Q - RDiv(i * Q, L)), Q)
                            ELSE current[i + 1]
               ELSE blk.output = current

\* C24 witness: a warm corrector crossfading a block longer than 128
\* samples: the head is changed by the stored tail, the rest is not
C24_Witness ==
    /\ blk # <<>>
    /\ hasPrevOutput
    /\ Len(blk.shifted) > crossfadeLength
    /\ blk.output[2] # blk.shifted[2]
    /\ blk.output[crossfadeLength + 1] = blk.shifted[crossfadeLength + 1]


(* ------------------- PitchDetector: detect and notes ------------------- *)
\* the sample rate the detector is constructed with (an 8 kHz AudioContext)
detectorSampleRate == 8 * 1000

\* this.noteStrings
noteStrings == <<"C", "C#", "D", "D#", "E", "F", "F#", "G", "G#", "A", "A#", "B">>

\* NaN, and undefined where it is used as a number
NaN == 0 - Infinity

\* a < b and a <= b on numbers that may be NaN
Lt(a, b) == a # NaN /\ b # NaN /\ a < b
Le(a, b) == a # NaN /\ b # NaN /\ a <= b

\* a / b rounded to the nearest integer, b of either sign and not 0
SDiv(a, b) == IF b < 0 THEN -RDiv(a, -b) ELSE RDiv(a, b)

\* the result for "no pitch"
Unvoiced == [frequency |-> -1, clarity |-> 0]

\* the sum over the block of buffer[i] * buffer[i], in units of 1 / (Q * Q)
RECURSIVE sumSquares(_, _)
sumSquares(buffer, i) ==
    IF i > Len(buffer) THEN 0 ELSE buffer[i] * buffer[i] + sumSquares(buffer, i + 1)

\* mutant of isSilent: the energy check never returns early
isSilent_never(buffer) == FALSE

\* rms < 0.01 with rms = Math.sqrt(sum / bufferSize); for an empty block rms
\* is NaN and the comparison is false
isSilent(buffer) ==
    /\ Len(buffer) > 0
    /\ sumSquares(buffer, 1) < Len(buffer) * 100 * 100

\* mutant of differenceStart: the slot is not cleared before accumulating
differenceStart_stale(old) == old

\* the value the difference function starts a slot from: yinBuffer[tau] = 0
differenceStart(old) == 0

\* the sum over i < halfBuffer of (buffer[i] - buffer[i + tau])^2, Q-scaled
RECURSIVE sumDeltas(_, _, _, _)
sumDeltas(buffer, halfBuffer, tau, i) ==
    IF i >= halfBuffer THEN 0
    ELSE MulQ(buffer[i + 1] - buffer[i + tau + 1], buffer[i + 1] - buffer[i + tau + 1])
             + sumDeltas(buffer, halfBuffer, tau, i + 1)

\* yinBuffer[tau] *= tau / runningSum, to two decimals; 0 * (tau / 0) is NaN
normalized(d, tau, runningSum) ==
    IF d = NaN \/ runningSum = NaN \/ runningSum = 0 THEN NaN
    ELSE RDiv(d * tau * 100, runningSum) * 100

\* mutant of walkDown: the walk goes on to the last lag
walkDown_toEnd(y, halfBuffer, tau) == halfBuffer - 1

\* mutant of walkDown: the first lag below the threshold is taken as it is
walkDown_none(y, halfBuffer, tau) == tau

\* the walk to the bottom of the dip that starts at tau
RECURSIVE walkDown(_, _, _)
walkDown(y, halfBuffer, tau) ==
    IF tau + 1 < halfBuffer /\ Lt(y[tau + 1], y[tau])
    THEN walkDown(y, halfBuffer, tau + 1)
    ELSE tau

\* not (frequency < 50 || frequency > 1200); both comparisons are false for NaN
inBand(frequency) == ~ (Lt(frequency, 50 * FQ) \/ Lt(1200 * FQ, frequency))

\* PitchDetector.detect on a detector whose scratch buffer holds yin0 and
\* whose threshold is thr: the result and the scratch buffer afterwards.
\* Slots at and beyond yin0's length do not exist: a write to one is dropped
\* and a read of one gives undefined.
detect(buffer, yin0, thr) ==
    LET bufferSize == Len(buffer)
        halfBuffer == bufferSize \div 2
        slots      == Len(yin0)
        \* step 2 (difference function), as stored
        diff == [tau \in 0..(halfBuffer - 1) |->
                    IF tau >= slots THEN NaN
                    ELSE IF differenceStart(yin0[tau + 1]) = NaN THEN NaN
                    ELSE differenceStart(yin0[tau + 1])
                             + sumDeltas(buffer, halfBuffer, tau, 0)]
        \* step 3 (cumulative mean normalized difference)
        running == [tau \in 0..(halfBuffer - 1) |->
                       IF \E j \in 1..tau : diff[j] = NaN THEN NaN
                       ELSE LET RECURSIVE acc(_)
                                acc(j) == IF j > tau THEN 0 ELSE diff[j] + acc(j + 1)
                            IN  acc(1)]
        y == [tau \in 0..(halfBuffer - 1) |->
                 IF tau >= slots THEN NaN
                 ELSE IF tau = 0 THEN Q
                 ELSE normalized(diff[tau], tau, running[tau])]
        \* what the scratch buffer holds when detect returns
        written == [j \in 1..slots |->
                       IF j = 1 THEN Q
                       ELSE IF j - 1 < halfBuffer THEN y[j - 1]
                       ELSE yin0[j]]
        \* step 4 (absolute threshold)
        dips == {tau \in 2..(halfBuffer - 1) : Lt(y[tau], thr)}
        tauEstimate == IF dips = {} THEN -1
                       ELSE walkDown(y, halfBuffer,
                                     CHOOSE tau \in dips : \A t \in dips : tau <= t)
        \* step 5 (parabolic interpolation), Q-scaled
        x0 == IF tauEstimate < 1 THEN tauEstimate ELSE tauEstimate - 1
        x2 == IF tauEstimate + 1 < halfBuffer THEN tauEstimate + 1 ELSE tauEstimate
        s0 == y[x0]
        s1 == y[tauEstimate]
        s2 == y[x2]
        denominator == 2 * (2 * s1 - s2 - s0)
        betterTau ==
            IF x0 = tauEstimate THEN (IF Le(s1, s2) THEN tauEstimate ELSE x2) * Q
            ELSE IF x2 = tauEstimate THEN (IF Le(s1, s0) THEN tauEstimate ELSE x0) * Q
            ELSE IF s0 = NaN \/ s1 = NaN \/ s2 = NaN THEN NaN
            ELSE IF denominator = 0 THEN (IF s2 = s0 THEN NaN ELSE Infinity)
            ELSE tauEstimate * Q + SDiv((s2 - s0) * Q, denominator)
        \* step 6
        frequency == IF betterTau = NaN THEN NaN
                     ELSE IF betterTau = Infinity THEN 0
                     ELSE SDiv(detectorSampleRate * FQ * 100, RDiv(betterTau, 100))
        clarity   == IF s1 = NaN THEN NaN ELSE Q - s1
    IN  IF isSilent(buffer)
        THEN [frequency |-> -1, clarity |-> 0, yinBuffer |-> yin0]
        ELSE IF tauEstimate = -1
        THEN [frequency |-> -1, clarity |-> 0, yinBuffer |-> written]
        ELSE IF ~ inBand(frequency)
        THEN [frequency |-> -1, clarity |-> 0, yinBuffer |-> written]
        ELSE [frequency |-> frequency,
              clarity   |-> IF clarity = NaN THEN NaN ELSE Max(0, Min(Q, clarity)),
              yinBuffer |-> written]

\* PitchDetector.frequencyToNote; <<>> stands for null
frequencyToNote(frequency) ==
    IF frequency <= 0 THEN <<>>
    ELSE LET noteNum     == Log2Cents(frequency)
             roundedNote == RoundSemis(noteNum)
             noteIndex   == (JsRem(roundedNote, 12) + 12) % 12
         IN  [note            |-> noteStrings[noteIndex + 1],
              octave          |-> ((roundedNote + 69) \div 12) - 1,
              cents           |-> noteNum - 100 * roundedNote,
              frequency       |-> frequency,
              targetFrequency |-> NoteFreq(roundedNote),
              noteIndex       |-> noteIndex,
              midiNote        |-> roundedNote + 69]

\* PitchDetector.noteToFrequency
noteToFrequency(noteName, octave) ==
    IF \A i \in 1..12 : noteStrings[i] # noteName THEN 0
    ELSE LET noteIndex == (CHOOSE i \in 1..12 : noteStrings[i] = noteName) - 1
             midiNote  == (octave + 1) * 12 + noteIndex
         IN  NoteFreq(midiNote - 69)

(* ------------------- SpecDetector: detect calls ------------------------ *)
\* one period of a sine of amplitude 1.0 sampled 4, 8 and 10 times
Sine4  == <<0, 10000, 0, -10000>>
Sine8  == <<0, 7071, 10000, 7071, 0, -7071, -10000, -7071>>
Sine10 == <<0, 5878, 9511, 9511, 5878, 0, -5878, -9511, -9511, -5878>>

\* n samples of the periodic wave at the given amplitude (in thousandths)
Tone(wave, amplitude, n) ==
    [i \in 1..n |-> (wave[((i - 1) % Len(wave)) + 1] * amplitude) \div 1000]

\* the blocks handed to detect: tones of 2000, 1000 and 800 Hz at amplitude
\* 0.5 in a full block, the 1000 Hz tone in a shorter block and below the
\* silence level, the 1000 and 800 Hz tones in a block longer than the
\* detector's bufferSize, a constant block, silence and the empty block
DetBlocks ==
    {Tone(Sine4, 500, DetLen), Tone(Sine8, 500, DetLen), Tone(Sine10, 500, DetLen),
     Tone(Sine8, 500, DetLen - 2), Tone(Sine8, 5, DetLen),
     Tone(Sine8, 500, DetLen + 4), Tone(Sine10, 500, DetLen + 4),
     [i \in 1..DetLen |-> Q \div 2], Zeros(DetLen), <<>>}

\* values handed to setThreshold
DetThresholds == {0, (15 * Q) \div 100, (3 * Q) \div 10, Q}

detRest == <<paramVars, runtimeVars, outBlock, detFreq, targetFreq, notesOut,
             audioCtx, engines, nodeVars, uiVars, fileSource, isPlayingFile,
             startedSources, nodeCount, sourceCount, pending, vizDetected,
             vizTarget, paramsIn, presetTable, tune, posted, sincePost, noteInfo, blk>>

\* a caller evaluates pitchDetector.detect(buffer)
Detect(buffer) ==
    /\ ops < MaxDetects
    /\ \E r \in {detect(buffer, yinBuffer, threshold)} :
           /\ estimate' = [frequency |-> r.frequency, clarity |-> r.clarity]
           /\ yinBuffer' = r.yinBuffer
    /\ inBlock' = buffer
    /\ lastOp' = "detect"
    /\ ops' = ops + 1
    /\ UNCHANGED <<threshold, detRest>>

\* a caller changes the threshold between two detect calls
ChangeThreshold(value) ==
    /\ setThreshold(value) # threshold
    /\ threshold' = setThreshold(value)
    /\ lastOp' = "setThreshold"
    /\ UNCHANGED <<yinBuffer, estimate, inBlock, ops, detRest>>

NextDetector ==
    \/ \E buffer \in DetBlocks : Detect(buffer)
    \/ \E value \in DetThresholds : ChangeThreshold(value)

SpecDetector == InitApp /\ [][NextDetector]_vars

(* ------------------- SpecNotes: frequencies and notes ------------------ *)
\* frequencies handed to frequencyToNote: the notes A1..D6, the points 40
\* cents above each, zero and the unvoiced sentinel
NoteInputs ==
    {NoteFreq(n) : n \in (-36)..17}
        \cup {(NoteFreq(n) * Exp2Cents(4000)) \div Q : n \in (-36)..17}
        \cup {0, -1}

noteRest == <<paramVars, runtimeVars, inBlock, outBlock, notesOut, ops,
              audioCtx, engines, nodeVars, uiVars, fileSource, isPlayingFile,
              startedSources, nodeCount, sourceCount, pending, vizDetected,
              vizTarget, paramsIn, presetTable, tune, posted, sincePost, threshold, yinBuffer,
              estimate, blk>>

\* a caller evaluates pitchDetector.frequencyToNote(frequency)
FrequencyToNote(frequency) ==
    /\ noteInfo' = frequencyToNote(frequency)
    /\ detFreq' = frequency
    /\ targetFreq' = 0
    /\ lastOp' = "frequencyToNote"
    /\ UNCHANGED noteRest

\* a caller evaluates pitchDetector.noteToFrequency(noteName, octave)
NoteToFrequency(noteName, octave) ==
    /\ noteInfo' = [note |-> noteName, octave |-> octave]
    /\ targetFreq' = noteToFrequency(noteName, octave)
    /\ detFreq' = 0
    /\ lastOp' = "noteToFrequency"
    /\ UNCHANGED noteRest

NextNotes ==
    \/ \E frequency \in NoteInputs : FrequencyToNote(frequency)
    \/ \E noteName \in Keys \cup {"H"}, octave \in 3..5 : NoteToFrequency(noteName, octave)

SpecNotes == InitApp /\ [][NextNotes]_vars

\* C17 (as claimed): frequencyToNote of a frequency > 0 returns
\* midiNote = 69 + the nearest semitone offset from A4, noteIndex = midiNote
\* mod 12, the note name of that pitch class (C = 0 ... B = 11), octave =
\* floor(midiNote / 12) - 1 and cents in [-50, 50]; 440 Hz gives A, octave 4,
\* MIDI 69, pitch class 9; a frequency <= 0 gives null.
C17_NoteInfoConsistent ==
    lastOp = "frequencyToNote" =>
        IF detFreq <= 0 THEN noteInfo = <<>>
        ELSE LET offset == RoundSemis(Log2Cents(detFreq))
             IN  /\ noteInfo # <<>>
                 /\ noteInfo.midiNote = 69 + offset
                 /\ noteInfo.noteIndex = noteInfo.midiNote % 12
                 /\ noteInfo.note = KeyNames[(noteInfo.midiNote % 12) + 1]
                 /\ noteInfo.octave = (noteInfo.midiNote \div 12) - 1
                 /\ noteInfo.cents \in (-50)..50
                 /\ detFreq = A4 * FQ =>
                        /\ noteInfo.note = "A" /\ noteInfo.octave = 4
                        /\ noteInfo.midiNote = 69 /\ noteInfo.noteIndex = 9

\* C17 counterexample: 440 Hz is reported as note C with pitch class 0,
\* octave 4 and MIDI 69, and noteToFrequency of that name and octave is
\* 261.63 Hz
C17_A4NamedC ==
    /\ lastOp = "frequencyToNote"
    /\ detFreq = A4 * FQ
    /\ noteInfo.note = "C" /\ noteInfo.noteIndex = 0
    /\ noteInfo.octave = 4 /\ noteInfo.midiNote = 69
    /\ noteInfo.targetFrequency = A4 * FQ
    /\ noteToFrequency(noteInfo.note, noteInfo.octave) = NoteFreq(-9)

(* --------------------- claims on the detector -------------------------- *)
\* the RMS of a block is below 0.01
RmsBelowSilence(buffer) ==
    /\ Len(buffer) > 0
    /\ sumSquares(buffer, 1) < Len(buffer) * 100 * 100

\* C18: a detect call on a block whose RMS is below 0.01 returns frequency
\* -1 and clarity 0 and leaves the scratch buffer as it was (the difference
\* function did not run), whatever the threshold.
C18_SilentUnvoiced ==
    [][(lastOp' = "detect" /\ ops' = ops + 1 /\ RmsBelowSilence(inBlock'))
           => (estimate' = Unvoiced /\ yinBuffer' = yinBuffer)]_vars

\* C18 witness: the 1000 Hz tone at amplitude 0.005 after a voiced call, at
\* the largest threshold: unvoiced, with the earlier call's values still in
\* the scratch buffer
C18_Witness ==
    /\ lastOp = "detect" /\ ops = MaxDetects
    /\ inBlock = Tone(Sine8, 5, DetLen)
    /\ threshold = Q \div 2
    /\ estimate = Unvoiced
    /\ yinBuffer # Zeros(DetLen \div 2)

\* C19 (as claimed): every result of detect is either frequency -1 with
\* clarity 0, or a frequency in [50, 1200] Hz with a clarity in [0, 1].
C19_ResultInBand ==
    lastOp = "detect" =>
        \/ estimate = Unvoiced
        \/ /\ estimate.frequency # NaN /\ estimate.clarity # NaN
           /\ 50 * FQ <= estimate.frequency /\ estimate.frequency <= 1200 * FQ
           /\ 0 <= estimate.clarity /\ estimate.clarity <= Q

\* C19 counterexample: a block longer than the detector's bufferSize whose
\* dip ends at the last slot of the scratch buffer: the frequency is NaN
C19_NaNFrequency ==
    /\ lastOp = "detect"
    /\ Len(inBlock) > DetLen
    /\ estimate.frequency = NaN
    /\ estimate.clarity \in 0..Q

\* C20: the result of a detect call is the result a detector just
\* constructed gives for the same block at the same threshold, whatever
\* calls came before.
C20_Stateless ==
    lastOp = "detect" =>
        LET fresh == detect(inBlock, Zeros(DetLen \div 2), threshold)
        IN  estimate = [frequency |-> fresh.frequency, clarity |-> fresh.clarity]

\* C20 witness: a voiced result for a short block after a call on a longer
\* one, with slots of the scratch buffer still holding the earlier call's
\* values
C20_Witness ==
    /\ lastOp = "detect" /\ ops = MaxDetects
    /\ Len(inBlock) < DetLen
    /\ estimate.frequency > 0
    /\ yinBuffer # detect(inBlock, Zeros(DetLen \div 2), threshold).yinBuffer

(* ------------------- SpecGrain: grainShift calls ----------------------- *)
\* the ratios processBuffer hands to grainShift: 1.0, ratios just inside
\* and just outside the copy band, a fifth up, an octave down and up
GrainRatios ==
    {Q, Q - 1, Q + 1, Q - 9, Q + 9, Q - 10, Q + 10, Q - 11, Q + 11,
     (15 * Q) \div 10, Q \div 2, 2 * Q}

GrainBlocks == InputBlocks \cup {Alt(2 * ShortLen), Ramp(2 * ShortLen)}

\* a corrector whose earlier blocks left smoothedRatio at one of the
\* ratios, about to shift one of the blocks
InitGrain ==
    /\ key = "C"
    /\ scale = "major"
    /\ correctionAmount = (75 * Q) \div 100
    /\ speed = 25 * Q
    /\ humanize = (3 * Q) \div 10
    /\ formantShift = 0
    /\ mix = (85 * Q) \div 100
    /\ smoothedRatio \in GrainRatios
    /\ prevDetectedFreq = 0
    /\ prevOutput = Zeros(crossfadeLength)
    /\ hasPrevOutput = FALSE
    /\ ConstructApp
    /\ lastOp = "new"
    /\ inBlock \in GrainBlocks
    /\ outBlock = <<>>
    /\ detFreq = 0
    /\ targetFreq = 0
    /\ notesOut = <<>>
    /\ ops = 0

\* processBuffer evaluates this.grainShift(inputBuffer, this.smoothedRatio)
CallGrainShift ==
    /\ lastOp = "new"
    /\ outBlock' = grainShift(inBlock, smoothedRatio)
    /\ lastOp' = "grainShift"
    /\ UNCHANGED <<paramVars, runtimeVars, inBlock, detFreq, targetFreq,
                   notesOut, ops, appVars>>

NextGrain == CallGrainShift

SpecGrain == InitGrain /\ [][NextGrain]_vars

\* C21: grainShift with |ratio - 1| < 0.001 returns a block equal to its
\* input sample for sample (no interpolation, no edge fade).
C21_NearUnityCopies ==
    (lastOp = "grainShift" /\ Abs(smoothedRatio - Q) * 1000 < Q) =>
        outBlock = inBlock

\* C21 witness: ratio 1.0009 on a block long enough for the edge fade, whose
\* first sample the fade would have silenced
C21_Witness ==
    /\ lastOp = "grainShift"
    /\ smoothedRatio = Q + 9
    /\ Len(inBlock) >= 4
    /\ inBlock[1] # 0
    /\ outBlock = inBlock

\* d'(tau) as the last detect call left it in the scratch buffer; a lag
\* without a slot reads as undefined
DPrime(tau) == IF tau < Len(yinBuffer) THEN yinBuffer[tau + 1] ELSE NaN

\* the lags in [2, N/2) whose d' is below the threshold
BelowThreshold == {tau \in 2..((Len(inBlock) \div 2) - 1) : Lt(DPrime(tau), threshold)}

\* tau is reached from the smallest lag below the threshold by advancing
\* while d'(tau + 1) < d'(tau), and the walk stops there
AcceptedLag(tau) ==
    LET first == CHOOSE t \in BelowThreshold : \A u \in BelowThreshold : t <= u
    IN  /\ first <= tau
        /\ \A t \in first..(tau - 1) : Lt(DPrime(t + 1), DPrime(t))
        /\ tau = (Len(inBlock) \div 2) - 1 \/ ~ Lt(DPrime(tau + 1), DPrime(tau))
        /\ Lt(DPrime(tau), threshold)

\* C26: after a detect call that passed the energy check, if no lag in
\* [2, N/2) has d' below the threshold the result is unvoiced; otherwise the
\* result comes from the lag reached from the smallest such lag by advancing
\* while d'(tau + 1) < d'(tau): a voiced result has clarity 1 - d'(tau) and a
\* frequency (when it is a number) within half a lag of sampleRate / tau.
C26_PeriodSelection ==
    (lastOp = "detect" /\ ~ RmsBelowSilence(inBlock) /\ Len(inBlock) > 0) =>
        IF BelowThreshold = {} THEN estimate = Unvoiced
        ELSE \E tau \in BelowThreshold :
                 /\ AcceptedLag(tau)
                 /\ estimate # Unvoiced =>
                        /\ estimate.clarity = Max(0, Min(Q, Q - DPrime(tau)))
                        /\ estimate.frequency # NaN =>
                               /\ estimate.frequency * (2 * tau + 1)
                                      >= 2 * detectorSampleRate * FQ - (2 * tau + 1)
                               /\ estimate.frequency * (2 * tau - 1)
                                      <= 2 * detectorSampleRate * FQ + (2 * tau - 1)

\* C26 witness: a voiced result whose lag lies beyond the first lag below
\* the threshold
C26_Witness ==
    /\ lastOp = "detect"
    /\ estimate.frequency > 0
    /\ \E tau \in BelowThreshold :
           /\ AcceptedLag(tau)
           /\ \E t \in BelowThreshold : t < tau

(* ------------------- SpecSine: detect on pure tones -------------------- *)
\* Math.sin(2 * PI * k / p), Q-scaled, 0 <= k < p
SinTurn(k, p) ==
    LET m == 4 * k - p
    IN  IF m < 0 THEN CosPi(-m, 2 * p)
        ELSE IF m <= 2 * p THEN CosPi(m, 2 * p)
        ELSE CosPi(4 * p - m, 2 * p)

\* n samples of a sine of f Hz (a multiple of 80) at the detector's sample
\* rate, amplitude in thousandths
SineBlock(f, amplitude, n) ==
    [i \in 1..n |->
        (SinTurn(((i - 1) * ((f * 100) \div detectorSampleRate)) % 100, 100)
             * amplitude) \div 1000]

\* 80, 160, ... 800 Hz; amplitudes 0.5 and 0.25; a full and a half block
SineFreqs == {80 * k : k \in 1..10}
SineAmplitudes == {500, 250}
SineLengths == {SineLen, SineLen \div 2}
SineBlocks ==
    {SineBlock(f, a, n) : f \in SineFreqs, a \in SineAmplitudes, n \in SineLengths}

\* a detector with bufferSize SineLen after a setThreshold call, and the
\* block it is about to be given
InitSine ==
    /\ ConstructCorrector
    /\ audioCtx = "none"
    /\ engines = FALSE
    /\ isListening = FALSE
    /\ isBypassed = FALSE
    /\ isPlayingFile = FALSE
    /\ processorNode = 0
    /\ sourceNode = 0
    /\ mediaStream = 0
    /\ fileSource = 0
    /\ liveNodes = {}
    /\ startedSources = {}
    /\ nodeCount = 0
    /\ sourceCount = 0
    /\ pending = [a \in Awaits |-> 0]
    /\ knobs = presets("modern")
    /\ keySelect = "C"
    /\ scaleSelect = "major"
    /\ vizDetected = 0
    /\ vizTarget = 0
    /\ presetTable = [n \in PresetNames |-> presets(n)]
    /\ ConstructTune
    /\ threshold \in {setThreshold(v) : v \in DetThresholds}
    /\ yinBuffer = Zeros(SineLen \div 2)
    /\ paramsIn = <<>>
    /\ estimate = <<>>
    /\ noteInfo = <<>>
    /\ blk = <<>>
    /\ lastOp = "setThreshold"
    /\ inBlock \in SineBlocks
    /\ outBlock = <<>>
    /\ detFreq = 0
    /\ targetFreq = 0
    /\ notesOut = <<>>
    /\ ops = 0

\* the caller hands the block to detect
DetectDrawn ==
    /\ lastOp = "setThreshold"
    /\ Detect(inBlock)

NextSine == DetectDrawn

SpecSine == InitSine /\ [][NextSine]_vars

\* the result is within 1% of f with clarity above 0.5
SineFound(f) ==
    /\ estimate.frequency # NaN
    /\ Abs(estimate.frequency - f * FQ) * 100 <= f * FQ
    /\ estimate.clarity > Q \div 2

\* the tone of f Hz the block holds
IsSineOf(f) == \E a \in SineAmplitudes : inBlock = SineBlock(f, a, Len(inBlock))

ringFull(samplesCollected) == samplesCollected >= tuneBufferSize

\* process, the loop writing the incoming samples to the ring: the ring after
\* it (index 0 of the Float32Array is position 1)
writeRing(ring, writeIndex, inputChannel) ==
    [j \in DOMAIN ring |->
       LET hits == {i \in 1..Len(inputChannel) :
                      (writeIndex + i - 1) % Len(ring) = j - 1}
       IN  IF hits = {} THEN ring[j]
           ELSE inputChannel[CHOOSE i \in hits : \A h \in hits : h <= i]]

\* TuneProcessor.sendAudioData: the message it posts
sendAudioData(buffer) == [type |-> "audioData", buffer |-> buffer]

\* TuneProcessor.process(inputs, outputs): the processor's fields after the
\* call, the output channel and the messages posted
process(inputChannel) ==
    IF Len(inputChannel) = 0
    THEN [tune |-> tune, outputChannel |-> Zeros(RenderQuantum), posted |-> <<>>]
    ELSE IF tune.bypassed
    THEN [tune |-> tune, outputChannel |-> inputChannel,
          posted |-> <<sendAudioData(inputChannel)>>]
    ELSE LET n == Len(inputChannel)
             ring == writeRing(tune.inputRing, tune.writeIndex, inputChannel)
             collected == tune.samplesCollected + n
             full == ringFull(collected)
         IN  [tune |-> [tune EXCEPT
                          !.inputRing = ring,
                          !.writeIndex = (@ + n) % tuneBufferSize,
                          !.samplesCollected = IF full THEN 0 ELSE collected],
              outputChannel |->
                  [i \in 1..n |-> MulQ(inputChannel[i], tune.mix)
                                    + MulQ(inputChannel[i], Q - tune.mix)],
              posted |-> IF full THEN <<sendAudioData(ring)>> ELSE <<>>]

\* one render quantum holding the sample v
QuantumOf(v) == [i \in 1..RenderQuantum |-> v]

\* what the audio graph hands to process: no input connected, or one render
\* quantum
TuneInputs == {<<>>, QuantumOf(Q \div 4), QuantumOf(Q \div 2)}

\* the messages the main thread sends to the processor
TuneMessages ==
    {[type |-> "bypass", value |-> TRUE], [type |-> "bypass", value |-> FALSE],
     [type |-> "reset"],
     [type |-> "setParams", mix |-> 50],
     [type |-> "setParams", correction |-> 100, speed |-> 10]}

tuneRest == <<paramVars, runtimeVars, detFreq, targetFreq, notesOut, ops,
              audioCtx, engines, isListening, isBypassed, isPlayingFile,
              processorNode, sourceNode, mediaStream, fileSource, liveNodes,
              startedSources, nodeCount, sourceCount, pending, knobs,
              keySelect, scaleSelect, vizDetected, vizTarget, presetTable,
              threshold, yinBuffer, estimate, noteInfo, blk>>

\* the audio thread calls process with one render quantum
Process(inputChannel) ==
    /\ \E r \in {process(inputChannel)} :
           /\ tune' = r.tune
           /\ outBlock' = r.outputChannel
           /\ posted' = r.posted
           /\ sincePost' =
                  (IF Len(inputChannel) = 0 \/ tune.bypassed
                   THEN collectedSoFar
                   ELSE collectedSoFar + Len(inputChannel))
    /\ inBlock' = inputChannel
    /\ lastOp' = "process"
    /\ UNCHANGED <<paramsIn, tuneRest>>

\* a message from the main thread is delivered between two process calls
PortMessage(data) ==
    /\ tune' = handleMessage(data)
    /\ posted' = <<>>
    /\ sincePost' = (IF data.type = "reset" THEN 0 ELSE collectedSoFar)
    /\ paramsIn' = data
    /\ lastOp' = "message:" \o data.type
    /\ UNCHANGED <<inBlock, outBlock, tuneRest>>

NextTune ==
    \/ \E inputChannel \in TuneInputs : Process(inputChannel)
    \/ \E data \in TuneMessages : PortMessage(data)

SpecTune == Init /\ [][NextTune]_vars

\* the ring was posted by the last call
RingPosted == posted # <<>> /\ posted[1].type = "audioData"

\* C28 (as claimed): at the end of every process call writeIndex is in
\* [0, bufferSize) and samplesCollected < bufferSize; a non-bypassed process
\* call posts an audioData message exactly when the samples collected since
\* the last post or reset reach bufferSize; a reset message leaves writeIndex
\* and samplesCollected 0, the ring zero and smoothedRatio 1.0.
C28_TuneProcessor ==
    /\ lastOp = "process"
         => /\ tune.writeIndex \in 0..(tuneBufferSize - 1)
            /\ tune.samplesCollected < tuneBufferSize
    /\ lastOp = "process" /\ ~ tune.bypassed /\ inBlock # <<>>
         => (RingPosted <=> sincePost >= tuneBufferSize)
    /\ lastOp = "message:reset"
         => /\ tune.writeIndex = 0
            /\ tune.samplesCollected = 0
            /\ tune.inputRing = Zeros(tuneBufferSize)
            /\ tune.smoothedRatio = Q

\* C28 counterexample: a non-bypassed process call posts the ring although
\* fewer than bufferSize samples were collected since the last audioData
\* message, which a bypassed call posted
C28_EarlyPost ==
    /\ lastOp = "process" /\ ~ tune.bypassed /\ inBlock # <<>>
    /\ RingPosted
    /\ sincePost < tuneBufferSize

\* the parts of C28 about the indices and about reset
C28_IndicesAndReset ==
    /\ tune.writeIndex \in 0..(tuneBufferSize - 1)
    /\ tune.samplesCollected < tuneBufferSize
    /\ lastOp = "message:reset"
         => /\ tune.writeIndex = 0
            /\ tune.samplesCollected = 0
            /\ tune.inputRing = Zeros(tuneBufferSize)
            /\ tune.smoothedRatio = Q

\* the part of C28 about posting holds of the samples collected since the
\* last reset or the last post of the ring
C28_PostsWhenCounterFull ==
    lastOp = "process" /\ ~ tune.bypassed /\ inBlock # <<>>
      => (RingPosted <=> tune.samplesCollected = 0)


(* ------------- SpecFrame: what each corrector method writes ------------- *)
\* the PitchCorrector object: its fields
this ==
    [key |-> key, scale |-> scale, correctionAmount |-> correctionAmount,
     speed |-> speed, humanize |-> humanize, formantShift |-> formantShift,
     mix |-> mix, smoothedRatio |-> smoothedRatio,
     prevDetectedFreq |-> prevDetectedFreq, prevOutput |-> prevOutput,
     hasPrevOutput |-> hasPrevOutput]

\* the object's fields become r
AssignThis(r) == AssignParams(r) /\ AssignRuntime(r)

\* setParams variant that also restarts the smoothing state
thisAfterSetParams_restart(params) == (setParams(params) @@ reset) @@ this

\* the object after setParams(params): the fields setParams assigns, the
\* others as they were
thisAfterSetParams(params) == setParams(params) @@ this

\* the object after reset(): the fields reset assigns, the others as they were
thisAfterReset == reset @@ this

\* getScaleNotes and getTargetFrequency assign no field
thisAfterGetScaleNotes == this
thisAfterGetTargetFrequency(f, rnd) == this

FrameBlocks == {Ramp(ShortLen), Alt(ShortLen)}
FrameDetections == {-1, 220 * FQ}
FramePitches == {220 * FQ, 466 * FQ}

\* pitchCorrector.setParams(params)
DoSetParams(params) ==
    /\ ops < MaxOps
    /\ AssignThis(thisAfterSetParams(params))
    /\ lastOp' = "setParams"
    /\ ops' = ops + 1
    /\ UNCHANGED <<inBlock, outBlock, detFreq, targetFreq, notesOut, appVars>>

\* applyPreset: pitchCorrector.setParams(preset)
DoApplyPreset(name) ==
    /\ ops < MaxOps
    /\ AssignThis(thisAfterSetParams(presetTable[name]))
    /\ lastOp' = "applyPreset"
    /\ ops' = ops + 1
    /\ UNCHANGED <<inBlock, outBlock, detFreq, targetFreq, notesOut, appVars>>

\* pitchCorrector.reset()
DoReset ==
    /\ ops < MaxOps
    /\ AssignThis(thisAfterReset)
    /\ lastOp' = "reset"
    /\ ops' = ops + 1
    /\ UNCHANGED <<inBlock, outBlock, detFreq, targetFreq, notesOut, appVars>>

\* pitchCorrector.getScaleNotes()
DoGetScaleNotes ==
    /\ AssignThis(thisAfterGetScaleNotes)
    /\ notesOut' = getScaleNotes(key, scale)
    /\ lastOp' = "getScaleNotes"
    /\ detFreq' = 0
    /\ targetFreq' = 0
    /\ UNCHANGED <<inBlock, outBlock, ops, appVars>>

\* pitchCorrector.getTargetFrequency(f, pitchCorrector.getScaleNotes())
DoGetTargetFrequency(f, rnd) ==
    /\ AssignThis(thisAfterGetTargetFrequency(f, rnd))
    /\ notesOut' = getScaleNotes(key, scale)
    /\ targetFreq' = getTargetFrequency(f, getScaleNotes(key, scale), humanize, rnd)
    /\ detFreq' = f
    /\ lastOp' = "getTargetFrequency"
    /\ UNCHANGED <<inBlock, outBlock, ops, appVars>>

NextFrame ==
    \/ \E params \in ParamUpdates : DoSetParams(params)
    \/ \E name \in PresetNames : DoApplyPreset(name)
    \/ DoReset
    \/ DoGetScaleNotes
    \/ \E f \in FramePitches, rnd \in DrawsFor(humanize) :
           DoGetTargetFrequency(f, rnd)
    \/ \E b \in FrameBlocks, f \in FrameDetections, rnd \in DrawsFor(humanize) :
           ProcessBuffer(b, f, rnd)

SpecFrame == Init /\ [][NextFrame]_vars

\* C29: setParams and preset application leave smoothedRatio, the tail and
\* hasPrevOutput (and prevDetectedFreq) as they were; reset leaves key, scale,
\* correctionAmount, speed, humanize, formantShift and mix as they were;
\* getScaleNotes and getTargetFrequency leave both groups as they were.
C29_ParamsRuntimeDisjoint ==
    [][/\ lastOp' \in {"setParams", "applyPreset"} => UNCHANGED runtimeVars
       /\ lastOp' = "reset" => UNCHANGED paramVars
       /\ lastOp' \in {"getScaleNotes", "getTargetFrequency"}
            => UNCHANGED <<paramVars, runtimeVars>>]_vars

\* C29 witness: setParams changed the correction amount of a corrector that
\* holds a tail and a smoothed ratio other than 1
C29_Witness ==
    /\ lastOp = "setParams"
    /\ correctionAmount = 0
    /\ hasPrevOutput
    /\ smoothedRatio # Q
    /\ prevOutput # Zeros(crossfadeLength)

=============================================================================
